---- MODULE Spec2Model ----
(***************************************************************************)
(* MetroPlan backend: the DFS path enumerator (PathfindingService), its    *)
(* post-processing (window filter, merge by train sequence), the time      *)
(* utilities and the adjacency builder (DataService).                      *)
(*                                                                         *)
(* Conventions.  An "HH:MM" string is the pair <<h, m>>; a missing time is  *)
(* NoTime.  A node [station, train, "HH:MM"] is the triple                  *)
(* <<station, train, <<h, m>>>>.  JavaScript arrays are 0-based, the       *)
(* sequences here are 1-based: node index i of the source is i + 1 here.   *)
(* A value that may be absent (null / undefined) is a record with a        *)
(* boolean "has" field next to the value.                                  *)
(***************************************************************************)
EXTENDS Integers, Sequences, FiniteSets, TLC

(***************************************************************************)
(* Bounds of the model.                                                    *)
(***************************************************************************)
\* at most this many edges of EdgePool are in the loaded graph file
MaxEdges == 4
\* the numbers of minutes handed to toTime range over 0..MaxMinutes
MaxMinutes == 1440
\* the graph files handed to buildAdjacencyList on its own have at most this
\* many edges
MaxBuildEdges == 3
\* the request's max_transfers ranges over 0..MaxTransfersBound
MaxTransfersBound == 2
\* the lists handed to the post-processing functions have at most this length
MaxListLen == 3

(***************************************************************************)
(* Time utilities (utils/timeUtils.js).                                    *)
(***************************************************************************)
MinutesPerDay == 1440

NoTime == <<>>

\* mutant: "00:00" is read as 0 like any other string
ParseTime_NoMidnight(timeStr) ==
  IF timeStr = NoTime THEN 0 ELSE timeStr[1] * 60 + timeStr[2]

\* parseTime: "" / undefined -> 0, "00:00" -> 1440, else hours * 60 + minutes
ParseTime(timeStr) ==
  IF timeStr = NoTime THEN 0
  ELSE IF timeStr = <<0, 0>> THEN MinutesPerDay
  ELSE timeStr[1] * 60 + timeStr[2]

\* toTime on a non-negative number of minutes (JS % and TLA+ % agree there)
ToTime(totalMinutes) ==
  LET minutes == totalMinutes % MinutesPerDay
      hours == minutes \div 60
      mins == minutes % 60
  IN <<hours, mins>>

\* formatDuration: "{hours}h {mins}m", kept as the two numbers it prints
FormatDuration(minutes) ==
  [h |-> minutes \div 60, m |-> minutes % 60]

\* String.prototype.localeCompare on two zero-padded "HH:MM" strings
LocaleCompare(a, b) ==
  IF a = b THEN 0
  ELSE IF a[1] < b[1] \/ (a[1] = b[1] /\ a[2] < b[2]) THEN -1
  ELSE 1

Min2(a, b) == IF a < b THEN a ELSE b

Max2(a, b) == IF a > b THEN a ELSE b

(***************************************************************************)
(* The data files.  The node table is fixed; the graph file holds the      *)
(* nodes and a selection of the edges of EdgePool, in pool order.  Neither *)
(* file is validated by the loader, so the pool holds edges that a graph   *)
(* builder would produce and edges it would not (a travel edge between two *)
(* trains, a weight that disagrees with the node times).                   *)
(***************************************************************************)
NodeX1 == <<"X", "T1", <<8, 0>>>>
NodeY1 == <<"Y", "T1", <<8, 30>>>>
NodeW1 == <<"W", "T1", <<8, 45>>>>
NodeY3 == <<"Y", "T3", <<8, 50>>>>
NodeW2 == <<"W", "T2", <<8, 55>>>>
NodeZ2 == <<"Z", "T2", <<9, 10>>>>
NodeY2 == <<"Y", "T2", <<8, 40>>>>
NodeZ3 == <<"Z", "T3", <<9, 20>>>>
NodeX2 == <<"X", "T2", <<0, 0>>>>
NodeZ1 == <<"Z", "T1", <<8, 15>>>>

GraphNodes ==
  <<NodeX1, NodeY1, NodeW1, NodeY3, NodeW2, NodeZ2, NodeY2, NodeZ3, NodeX2, NodeZ1>>

RawEdge(f, t, w, stt, ty) ==
  [from |-> f, to |-> t, weight |-> w, segment_travel_time |-> stt, type |-> ty]

\* weight / segment_travel_time 0 and type "" stand for an absent field
EdgePool ==
  << RawEdge(NodeX1, NodeY1, 30, 0, "travel"),
     RawEdge(NodeY1, NodeW1, 0, 15, ""),
     RawEdge(NodeY1, NodeY2, 10, 0, "transfer"),
     RawEdge(NodeY2, NodeW2, 15, 0, "travel"),
     RawEdge(NodeW1, NodeW2, 10, 0, "transfer"),
     RawEdge(NodeW2, NodeZ2, 15, 0, "travel"),
     RawEdge(NodeY2, NodeY3, 10, 0, "transfer"),
     RawEdge(NodeY3, NodeZ3, 30, 0, "travel"),
     RawEdge(NodeY2, NodeY1, 1430, 0, "transfer"),
     RawEdge(NodeW1, NodeZ1, 1410, 0, "travel"),
     RawEdge(NodeY1, NodeZ2, 40, 0, "travel"),
     RawEdge(NodeW2, NodeZ2, 20, 0, "travel"),
     RawEdge(NodeX2, NodeY2, 520, 0, "travel") >>

Indices(n) == [i \in 1..n |-> i]

\* the edges of the pool whose positions are in sel, in pool order
PickEdges(sel) ==
  LET idx == SelectSeq(Indices(Len(EdgePool)), LAMBDA i : i \in sel)
  IN [k \in 1..Len(idx) |-> EdgePool[idx[k]]]

GraphFiles ==
  { [nodes |-> GraphNodes, edges |-> PickEdges(sel)]
    : sel \in {s \in SUBSET (1..Len(EdgePool)) : Cardinality(s) <= MaxEdges} }

NoDirection == [has |-> FALSE, v |-> <<>>]

Direction(v) == [has |-> TRUE, v |-> v]

TrainRecord(id, fast, dir) == [id |-> id, is_fast |-> fast, directionality |-> dir]

\* the schedule files: the "train" list of each
ScheduleFiles ==
  { << TrainRecord("T1", TRUE, Direction(<<1, 0>>)),
       TrainRecord("T2", FALSE, Direction(<<-1, 0>>)),
       TrainRecord("T3", FALSE, NoDirection) >>,
    << TrainRecord("T1", FALSE, Direction(<<1, 0>>)),
       TrainRecord("T2", FALSE, Direction(<<1, 1>>)),
       TrainRecord("T3", TRUE, Direction(<<0, -1, 1>>)) >> }

(***************************************************************************)
(* DataService (services/dataService.js).                                  *)
(***************************************************************************)
\* extractTrainInfo: train id -> {is_fast, directionality}
ExtractTrainInfo(schedule) ==
  [id \in {schedule[i].id : i \in 1..Len(schedule)} |->
     LET i == CHOOSE k \in 1..Len(schedule) :
                /\ schedule[k].id = id
                /\ \A l \in (k + 1)..Len(schedule) : schedule[l].id # id
     IN [is_fast |-> schedule[i].is_fast,
         directionality |-> schedule[i].directionality]]

\* extractDirectionalityMap: only the trains whose directionality is an array
ExtractDirectionalityMap(schedule) ==
  [id \in {schedule[i].id : i \in {k \in 1..Len(schedule) : schedule[k].directionality.has}} |->
     LET i == CHOOSE k \in 1..Len(schedule) :
                /\ schedule[k].id = id
                /\ schedule[k].directionality.has
                /\ \A l \in (k + 1)..Len(schedule) :
                      ~(schedule[l].id = id /\ schedule[l].directionality.has)
     IN schedule[i].directionality.v]

\* nodeLookup.get(JSON.stringify(node)): the last index of the node, 0 for undefined
NodeLookup(ns, key) ==
  LET hits == {i \in 1..Len(ns) : ns[i] = key}
  IN IF hits = {} THEN 0 ELSE CHOOSE i \in hits : \A j \in hits : j <= i

\* edge.weight || edge.segment_travel_time || 0
EdgeDuration(edge) ==
  IF edge.weight # 0 THEN edge.weight
  ELSE IF edge.segment_travel_time # 0 THEN edge.segment_travel_time
  ELSE 0

\* the edgeInfo pushed for an edge that is kept
EdgeInfo(ns, edge) ==
  [to |-> NodeLookup(ns, edge.to),
   type |-> IF edge.type # "" THEN edge.type ELSE "travel",
   duration |-> EdgeDuration(edge)]

\* mutant: the duration is not looked at
EdgeKept_AnyDuration(ns, edge) ==
  /\ NodeLookup(ns, edge.from) # 0
  /\ NodeLookup(ns, edge.to) # 0

\* an edge is skipped when an endpoint is unknown or its duration is not positive
EdgeKept(ns, edge) ==
  /\ NodeLookup(ns, edge.from) # 0
  /\ NodeLookup(ns, edge.to) # 0
  /\ EdgeDuration(edge) > 0

\* buildAdjacencyList: node index -> the kept edges from it, in input order
BuildAdjacencyList(ns, es) ==
  [i \in 1..Len(ns) |->
     LET mine == SelectSeq(es, LAMBDA e : EdgeKept(ns, e) /\ NodeLookup(ns, e.from) = i)
     IN [k \in 1..Len(mine) |-> EdgeInfo(ns, mine[k])]]

(***************************************************************************)
(* PathfindingService (services/pathfindingService.js).                    *)
(***************************************************************************)
RECURSIVE SumDurations(_, _)
\* the durations of the first k edges of an edge history, added up
SumDurations(eh, k) ==
  IF k = 0 THEN 0 ELSE SumDurations(eh, k - 1) + eh[k].duration

RECURSIVE TransferDetailsUpTo(_, _, _, _)
\* summarizePath's loop over the first k edges: one detail per "transfer" edge
TransferDetailsUpTo(ns, eh, startTime, k) ==
  IF k = 0 THEN <<>>
  ELSE LET before == TransferDetailsUpTo(ns, eh, startTime, k - 1)
           prevTime == startTime + SumDurations(eh, k - 1)
           timeline == prevTime + eh[k].duration
       IN IF eh[k].type = "transfer"
          THEN Append(before, [station |-> ns[eh[k].from][1],
                               arrival_time |-> ToTime(prevTime),
                               departure_time |-> ToTime(timeline),
                               wait_minutes |-> eh[k].duration])
          ELSE before

\* trainSeqCopy.some(trainId => trainInfo[trainId]?.is_fast)
IsFast(trainSequence, tinfo) ==
  \E i \in 1..Len(trainSequence) :
     trainSequence[i] \in DOMAIN tinfo /\ tinfo[trainSequence[i]].is_fast

NoOptions == [has |-> FALSE, v |-> <<>>]

\* mutant: the total reduced to a time of day
TotalMinutes_Wrapped(startTime, timeline) ==
  (timeline - startTime) % MinutesPerDay

\* totalMinutes = timeline - startTime, plus 1440 when negative
TotalMinutes(startTime, timeline) ==
  LET diff == timeline - startTime
  IN IF diff < 0 THEN diff + MinutesPerDay ELSE diff

\* summarizePath; id 0 and transfer_options NoOptions are the fields not yet set
SummarizePath(ns, eh, trainSequence, startTime, endTime, tinfo) ==
  LET transferDetails == TransferDetailsUpTo(ns, eh, startTime, Len(eh))
      walked == startTime + SumDurations(eh, Len(eh))
      timeline == IF walked # endTime THEN endTime ELSE walked
      totalMinutes == TotalMinutes(startTime, timeline)
  IN [type |-> IF Len(transferDetails) > 0 THEN "Transfer" ELSE "Direct",
      train_sequence |-> trainSequence,
      transfer_details |-> transferDetails,
      departure_time |-> ToTime(startTime),
      arrival_time |-> ToTime(timeline),
      total_time |-> FormatDuration(totalMinutes),
      total_minutes |-> totalMinutes,
      is_fast |-> IsFast(trainSequence, tinfo),
      transfer_count |-> Len(transferDetails),
      id |-> 0,
      transfer_options |-> NoOptions]

\* mutant: only the first line is compared
Opposite_FirstLineOnly(a, b) ==
  \E j \in 1..Min2(1, Min2(Len(a), Len(b))) : a[j] # 0 /\ b[j] # 0 /\ a[j] = -b[j]

\* the inner loop of the directionality check: a and b oppose on some line
Opposite(a, b) ==
  \E j \in 1..Min2(Len(a), Len(b)) : a[j] # 0 /\ b[j] # 0 /\ a[j] = -b[j]

\* the directionality check of dfs: "invalid" after the loop over seq
DirectionInvalid(seq, dmap) ==
  \E i \in 1..(Len(seq) - 1) :
     /\ seq[i] \in DOMAIN dmap
     /\ seq[i + 1] \in DOMAIN dmap
     /\ Opposite(dmap[seq[i]], dmap[seq[i + 1]])

\* the path is skipped: directionMap && transfer_count > 0 && invalid
SkippedForDirection(summary, dmap) ==
  summary.transfer_count > 0 /\ DirectionInvalid(summary.train_sequence, dmap)

\* mutant: no tie-break on departure_time
ComparePaths_NoTieBreak(a, b) ==
  a.total_minutes - b.total_minutes

\* the comparator of the sort of this.paths
ComparePaths(a, b) ==
  IF a.total_minutes # b.total_minutes
  THEN a.total_minutes - b.total_minutes
  ELSE LocaleCompare(a.departure_time, b.departure_time)

\* p put into a sorted list after every element that does not compare greater
InsertSorted(sorted, p) ==
  LET keep == {i \in 0..Len(sorted) :
                 \A j \in 1..i : ComparePaths(sorted[j], p) <= 0}
      at == CHOOSE i \in keep : \A j \in keep : j <= i
  IN SubSeq(sorted, 1, at) \o <<p>> \o SubSeq(sorted, at + 1, Len(sorted))

RECURSIVE SortUpTo(_, _)
\* Array.prototype.sort (stable) of the first k paths
SortUpTo(ps, k) ==
  IF k = 0 THEN <<>> ELSE InsertSorted(SortUpTo(ps, k - 1), ps[k])

SortPaths(ps) == SortUpTo(ps, Len(ps))

\* this.paths.forEach((path, idx) => { path.id = idx + 1 })
AddIds(ps) == [i \in 1..Len(ps) |-> [ps[i] EXCEPT !.id = i]]

\* mutant: a negative window is not raised to zero
CutoffMinutes_NoClamp(fastestMinutes, windowMinutes) ==
  fastestMinutes + windowMinutes

\* mutant: the window is taken off the fastest duration
CutoffMinutes_Below(fastestMinutes, windowMinutes) ==
  fastestMinutes - Max2(windowMinutes, 0)

\* cutoffMinutes = fastestMinutes + Math.max(windowMinutes, 0)
CutoffMinutes(fastestMinutes, windowMinutes) ==
  fastestMinutes + Max2(windowMinutes, 0)

\* filterPathsByTimeWindow: {paths, fastestMinutes}
FilterPathsByTimeWindow(ps, windowMinutes) ==
  IF Len(ps) = 0 THEN [paths |-> <<>>, fastestMinutes |-> 0]
  ELSE LET fastestMinutes ==
             CHOOSE m \in {ps[i].total_minutes : i \in 1..Len(ps)} :
                \A i \in 1..Len(ps) : m <= ps[i].total_minutes
           cutoffMinutes == CutoffMinutes(fastestMinutes, windowMinutes)
       IN [paths |-> SelectSeq(ps, LAMBDA q : q.total_minutes <= cutoffMinutes),
           fastestMinutes |-> fastestMinutes]

\* entry.transfer_count || (entry.transfer_details || []).length
TransferCountOf(entry) ==
  IF entry.transfer_count # 0 THEN entry.transfer_count
  ELSE Len(entry.transfer_details)

\* the JSON text that keys a group
MergeKey(entry) ==
  <<entry.train_sequence, entry.type, TransferCountOf(entry),
    entry.departure_time, entry.arrival_time, entry.total_minutes>>

\* the option lists of a new group: transferCount lists, the entry's details in them
FirstOptionLists(entry) ==
  IF TransferCountOf(entry) > 0
  THEN [has |-> TRUE,
        v |-> [i \in 1..TransferCountOf(entry) |->
                 IF i <= Len(entry.transfer_details)
                 THEN <<entry.transfer_details[i]>> ELSE <<>>]]
  ELSE [has |-> FALSE, v |-> <<>>]

\* mutant: a detail is pushed whether or not its list has it
AddToOptionLists_NoDedupe(lists, entry) ==
  LET old == IF lists.has THEN lists.v
             ELSE [i \in 1..TransferCountOf(entry) |-> <<>>]
      details == entry.transfer_details
  IN [has |-> TRUE,
      v |-> [i \in 1..Max2(Len(old), Len(details)) |->
               LET cur == IF i <= Len(old) THEN old[i] ELSE <<>>
               IN IF i <= Len(details) THEN Append(cur, details[i]) ELSE cur]]

\* a later entry of a group: each detail is pushed to its list unless it is in it
AddToOptionLists(lists, entry) ==
  LET old == IF lists.has THEN lists.v
             ELSE [i \in 1..TransferCountOf(entry) |-> <<>>]
      details == entry.transfer_details
  IN [has |-> TRUE,
      v |-> [i \in 1..Max2(Len(old), Len(details)) |->
               LET cur == IF i <= Len(old) THEN old[i] ELSE <<>>
               IN IF i <= Len(details) /\ \A k \in 1..Len(cur) : cur[k] # details[i]
                  THEN Append(cur, details[i]) ELSE cur]]

\* mutant: grouped never has the key
KeyPosition_Absent(keys, key) == 0

\* position of a key in orderedKeys, 0 when grouped has no such key
KeyPosition(keys, key) ==
  IF \E k \in 1..Len(keys) : keys[k] = key
  THEN CHOOSE k \in 1..Len(keys) : keys[k] = key
  ELSE 0

RECURSIVE GroupUpTo(_, _)
\* the first loop of mergePathsByTrainSequence over the first n entries:
\* orderedKeys, and per key the base and its _transfer_option_lists
GroupUpTo(ps, n) ==
  IF n = 0 THEN [keys |-> <<>>, bases |-> <<>>, lists |-> <<>>]
  ELSE LET g == GroupUpTo(ps, n - 1)
           entry == ps[n]
           at == KeyPosition(g.keys, MergeKey(entry))
       IN IF at = 0
          THEN [keys |-> Append(g.keys, MergeKey(entry)),
                bases |-> Append(g.bases, entry),
                lists |-> Append(g.lists, FirstOptionLists(entry))]
          ELSE IF TransferCountOf(entry) = 0 THEN g
          ELSE [g EXCEPT !.lists[at] = AddToOptionLists(@, entry)]

\* the lists that are not empty, in order
NonEmptyLists(v) == SelectSeq(v, LAMBDA l : Len(l) > 0)

\* mutant: transfer_details become the last option of each list
FinishBase_LastOption(base, lists) ==
  IF lists.has
  THEN [base EXCEPT
          !.transfer_options =
             [has |-> TRUE,
              v |-> SelectSeq([i \in 1..Len(lists.v) |->
                                 [step |-> i, options |-> lists.v[i]]],
                              LAMBDA o : Len(o.options) > 0)],
          !.transfer_details =
             [i \in 1..Len(NonEmptyLists(lists.v)) |->
                NonEmptyLists(lists.v)[i][Len(NonEmptyLists(lists.v)[i])]]]
  ELSE base

\* the second loop: a base with option lists gets transfer_options, and its
\* transfer_details become the first option of each list
FinishBase(base, lists) ==
  IF lists.has
  THEN [base EXCEPT
          !.transfer_options =
             [has |-> TRUE,
              v |-> SelectSeq([i \in 1..Len(lists.v) |->
                                 [step |-> i, options |-> lists.v[i]]],
                              LAMBDA o : Len(o.options) > 0)],
          !.transfer_details =
             [i \in 1..Len(NonEmptyLists(lists.v)) |-> NonEmptyLists(lists.v)[i][1]]]
  ELSE base

\* mutant: the groups are returned last key first
MergePathsByTrainSequence_Reversed(ps) ==
  LET g == GroupUpTo(ps, Len(ps))
      n == Len(g.keys)
  IN [k \in 1..n |-> FinishBase(g.bases[n + 1 - k], g.lists[n + 1 - k])]

\* mergePathsByTrainSequence
MergePathsByTrainSequence(ps) ==
  LET g == GroupUpTo(ps, Len(ps))
  IN [k \in 1..Len(g.keys) |-> FinishBase(g.bases[k], g.lists[k])]

(***************************************************************************)
(* State.  graphData .. directionMap are the module variables of the       *)
(* route; paths and stats are the fields of the PathfindingService; the    *)
(* rest is the activation of findAllPaths: its arguments (req), its        *)
(* startNodes and position in the loop over them (si), and the recursion   *)
(* of dfs as a stack of frames, with the two arrays (path, edgeHistory)    *)
(* that all frames of one start node share.  emitted is a history          *)
(* variable: for every summary pushed to this.paths, in push order, the    *)
(* summary with the edge history and start node it was computed from.      *)
(* post holds the lists of the post-processing functions when they are     *)
(* applied on their own.                                                   *)
(***************************************************************************)
VARIABLES graphData, scheduleData, adjacencyList, trainInfo, directionMap,
          paths, stats, pc, req, startNodes, si, startTime,
          stack, path, edgeHistory, emitted, post,
          origin, completed, loads, conn, resp,
          deadlinePassed, sent, late,
          minutes, timeStr, parsed,
          now, requests, admitted, verdict,
          port

vars == <<graphData, scheduleData, adjacencyList, trainInfo, directionMap,
          paths, stats, pc, req, startNodes, si, startTime,
          stack, path, edgeHistory, emitted, post,
          origin, completed, loads, conn, resp,
          deadlinePassed, sent, late,
          minutes, timeStr, parsed,
          now, requests, admitted, verdict,
          port>>

\* the state of the router (routes/pathfinding.js) when requests are served:
\* the activity of each connection and of the load at startup, the number of
\* loads started, the response sent by the last step; origin (which load
\* assigned each module variable, 0 for null) and completed (the loads that
\* returned true) are history variables
routerVars == <<origin, completed, loads, conn, resp>>

\* the timer of the request timeout middleware, the response sent and the
\* responses attempted after it
timerVars == <<deadlinePassed, sent, late>>

\* a number of minutes handed to toTime, the string it gives and the number
\* parseTime gives for that string
utilityVars == <<minutes, timeStr, parsed>>

\* the rate limiter: Date.now(), its Map of timestamps per client, and two
\* history variables: the requests let through so far and the last verdict
limiterVars == <<now, requests, admitted, verdict>>

\* the answers of the backend service and of the front-end port to one query
portVars == <<port>>

\* what the route handlers leave alone
offRouteVars == <<timerVars, utilityVars, limiterVars, portVars>>

\* what one call of findAllPaths on its own leaves alone
otherVars == <<post, routerVars, offRouteVars>>

dataVars == <<graphData, scheduleData, adjacencyList, trainInfo, directionMap>>

NoStation == [has |-> FALSE, v |-> ""]

SomeStation(st) == [has |-> TRUE, v |-> st]

\* a station name used as a condition: null and "" are falsy
Truthy(st) == st.has /\ st.v # ""

NoRequest ==
  [startStation |-> "", endStation |-> "", maxTransfers |-> 0,
   allowSameStationConsecutiveTransfers |-> FALSE]

StartStations == {"X", "Y", "Q"}

EndStations == {"Z"}

NoPost ==
  [stage |-> "none", input |-> <<>>, window |-> 0, filtered |-> <<>>,
   fastestMinutes |-> 0, merged |-> <<>>, again |-> <<>>]

ModuleVars == {"graphData", "scheduleData", "adjacencyList", "trainInfo", "directionMap"}

\* the clients with a connection to the server
Clients == {"c1", "c2"}

\* who runs loadInitialData: the module at startup, or the handler of a client
Owners == Clients \cup {"boot"}

Undefined == [has |-> FALSE, v |-> 0]

UndefinedFlag == [has |-> FALSE, v |-> FALSE]

Given(x) == [has |-> TRUE, v |-> x]

\* req.body of POST /find
Body(s, e, mt, w, allow) ==
  [start_station |-> s, end_station |-> e, max_transfers |-> mt,
   window_minutes |-> w, allow_same_station_consecutive_transfers |-> allow]

NoBody == Body("", "", Undefined, Undefined, UndefinedFlag)

\* a connection with no request being handled
NoConn == [kind |-> "none", pc |-> "idle", body |-> NoBody, load |-> 0]

NoPayload ==
  [shape |-> "none", start_station |-> "", end_station |-> "",
   raw_path_count |-> 0, window_minutes |-> 0, fastest_minutes |-> 0,
   filtered_path_count |-> 0, merged_path_count |-> 0,
   skipped_same_station_transfers |-> 0, paths |-> <<>>,
   direct_paths |-> [total |-> 0, fast |-> 0, slow |-> 0],
   transfer_breakdown |-> <<0, 0, 0>>, stations |-> {}]

\* no response; oneLoad and statsBefore are history fields: the module
\* variables the handler read were all assigned by one load, and that load had
\* returned true; this.stats of the service when the handler started
NoResponse ==
  [client |-> "", kind |-> "none", status |-> 0, body |-> NoBody, payload |-> NoPayload,
   oneLoad |-> TRUE, statsBefore |-> [skipped_same_station_transfers |-> 0]]

\* the router serves no request (findAllPaths or the post-processing on its own)
RouterUnused ==
  /\ origin = [v \in ModuleVars |-> 0]
  /\ completed = {}
  /\ loads = 0
  /\ conn = [o \in Owners |-> NoConn]
  /\ resp = NoResponse

TimerUnused ==
  /\ deadlinePassed = FALSE
  /\ sent = "none"
  /\ late = <<>>

\* toTime and parseTime are not being exercised on their own
UtilityUnused ==
  /\ minutes = 0
  /\ timeStr = NoTime
  /\ parsed = 0

\* no request at the rate limiter in the last step; before is a history field:
\* the admitted requests of the client less than windowMs old on arrival
NoVerdict == [client |-> "", status |-> 0, before |-> 0]

\* no request has passed the rate limiter
LimiterUnused ==
  /\ now = 0
  /\ requests = <<>>
  /\ admitted = <<>>
  /\ verdict = NoVerdict

NoAnswer == [paths |-> <<>>, skipped_same_station_transfers |-> 0]

\* the front-end port has not been compared with the backend
PortUnused == port = [backend |-> NoAnswer, frontend |-> NoAnswer]

\* loadInitialData has completed; the service is constructed
Init ==
  /\ graphData \in GraphFiles
  /\ scheduleData \in ScheduleFiles
  /\ adjacencyList = BuildAdjacencyList(graphData.nodes, graphData.edges)
  /\ trainInfo = ExtractTrainInfo(scheduleData)
  /\ directionMap = ExtractDirectionalityMap(scheduleData)
  /\ paths = <<>>
  /\ stats = [skipped_same_station_transfers |-> 0]
  /\ pc = "idle"
  /\ req = NoRequest
  /\ startNodes = <<>>
  /\ si = 0
  /\ startTime = 0
  /\ stack = <<>>
  /\ path = <<>>
  /\ edgeHistory = <<>>
  /\ emitted = <<>>
  /\ post = NoPost
  /\ RouterUnused
  /\ TimerUnused
  /\ UtilityUnused
  /\ LimiterUnused
  /\ PortUnused

\* the indices of the nodes of a station, in node order
StartNodesOf(ns, station) ==
  SelectSeq(Indices(Len(ns)), LAMBDA i : ns[i][1] = station)

(***************************************************************************)
(* findAllPaths as one call.  It runs to completion on the single          *)
(* JavaScript thread, so a handler that calls it sees only its result:     *)
(* the value returned, this.paths and this.stats.  ctx holds the arguments *)
(* of findAllPaths and the startTime of the running start node; f the      *)
(* arguments of one call of dfs with the two shared arrays as they stand;  *)
(* acc the paths and stats of the service.                                 *)
(***************************************************************************)
\* mutant: the statistics of the previous call are kept
StatsAtEntry_NotReset(old) == old

\* this.stats = { skipped_same_station_transfers: 0 }
StatsAtEntry(old) == [skipped_same_station_transfers |-> 0]

DfsCall(idx, time, transfers, trains, last, pathArr, history) ==
  [currentIdx |-> idx, currentTime |-> time, transfersUsed |-> transfers,
   trainSequence |-> trains, lastTransferStation |-> last,
   path |-> pathArr, edgeHistory |-> history]

RECURSIVE Dfs(_, _, _)
RECURSIVE DfsNeighbors(_, _, _, _)
\* one call of dfs
Dfs(ctx, f, acc) ==
  IF ctx.nodes[f.currentIdx][1] = ctx.endStation /\ Len(f.edgeHistory) > 0
  THEN LET pathSummary == SummarizePath(ctx.nodes, f.edgeHistory, f.trainSequence,
                                        ctx.startTime, f.currentTime, ctx.trainInfo)
       IN IF SkippedForDirection(pathSummary, ctx.directionMap) THEN acc
          ELSE [acc EXCEPT !.paths = Append(@, pathSummary)]
  ELSE DfsNeighbors(ctx, f, 1, acc)

\* the loop of dfs over the neighbors, from the k-th on
DfsNeighbors(ctx, f, k, acc) ==
  LET neighbors == ctx.adjacency[f.currentIdx]
  IN IF k > Len(neighbors) THEN acc
     ELSE
       LET edge == neighbors[k]
           neighborTrain == ctx.nodes[edge.to][2]
           currentTrain == ctx.nodes[f.currentIdx][2]
           isTransferNow == edge.type = "transfer" \/ neighborTrain # currentTrain
           transferStation == ctx.nodes[f.currentIdx][1]
           nextTransfers == f.transfersUsed + (IF isTransferNow THEN 1 ELSE 0)
           nextTrainSequence ==
             IF neighborTrain = f.trainSequence[Len(f.trainSequence)]
             THEN f.trainSequence ELSE Append(f.trainSequence, neighborTrain)
       IN IF (\E i \in 1..Len(f.path) : f.path[i] = edge.to) \/ edge.duration <= 0
          THEN DfsNeighbors(ctx, f, k + 1, acc)
          ELSE IF /\ isTransferNow
                  /\ ~ctx.allowSameStationConsecutiveTransfers
                  /\ Truthy(f.lastTransferStation)
                  /\ transferStation = f.lastTransferStation.v
          THEN DfsNeighbors(ctx, f, k + 1,
                 [acc EXCEPT !.stats.skipped_same_station_transfers = @ + 1])
          ELSE IF nextTransfers > ctx.maxTransfers
          THEN DfsNeighbors(ctx, f, k + 1, acc)
          ELSE DfsNeighbors(ctx, f, k + 1,
                 Dfs(ctx,
                     DfsCall(edge.to, f.currentTime + edge.duration, nextTransfers,
                             nextTrainSequence,
                             IF isTransferNow THEN SomeStation(transferStation)
                             ELSE f.lastTransferStation,
                             Append(f.path, edge.to),
                             Append(f.edgeHistory,
                                    [from |-> f.currentIdx, to |-> edge.to,
                                     type |-> edge.type, duration |-> edge.duration])),
                     acc))

RECURSIVE DfsFromStarts(_, _, _, _)
\* the loop over startNodes, from the k-th on
DfsFromStarts(ctx, starts, k, acc) ==
  IF k > Len(starts) THEN acc
  ELSE LET startIdx == starts[k]
           t == ParseTime(ctx.nodes[startIdx][3])
       IN DfsFromStarts(ctx, starts, k + 1,
            Dfs([ctx EXCEPT !.startTime = t],
                DfsCall(startIdx, t, 0, <<ctx.nodes[startIdx][2]>>, NoStation,
                        <<startIdx>>, <<>>),
                acc))

\* findAllPaths, called with this.stats as statsBefore: the value returned, and
\* this.paths and this.stats after it
FindAllPaths(statsBefore, nodes, adjacency, startStation, endStation, tinfo, dmap, options) ==
  LET entry == [paths |-> <<>>, stats |-> StatsAtEntry(statsBefore)]
      starts == StartNodesOf(nodes, startStation)
      ctx == [nodes |-> nodes, adjacency |-> adjacency, endStation |-> endStation,
              trainInfo |-> tinfo, directionMap |-> dmap,
              maxTransfers |-> options.maxTransfers,
              allowSameStationConsecutiveTransfers |->
                 options.allowSameStationConsecutiveTransfers,
              startTime |-> 0]
  IN IF Len(starts) = 0
     THEN [returned |-> <<>>, paths |-> entry.paths, stats |-> entry.stats]
     ELSE LET found == DfsFromStarts(ctx, starts, 1, entry)
              sorted == AddIds(SortPaths(found.paths))
          IN [returned |-> sorted, paths |-> sorted, stats |-> found.stats]

Requests ==
  [startStation : StartStations, endStation : EndStations,
   maxTransfers : 0..MaxTransfersBound,
   allowSameStationConsecutiveTransfers : BOOLEAN]

\* findAllPaths is entered and no node is at the start station: return []
FindAllPathsNoStart ==
  /\ pc = "idle"
  /\ \E r \in Requests :
       /\ StartNodesOf(graphData.nodes, r.startStation) = <<>>
       /\ req' = r
  /\ paths' = <<>>
  /\ stats' = [skipped_same_station_transfers |-> 0]
  /\ startNodes' = <<>>
  /\ pc' = "done"
  /\ UNCHANGED <<dataVars, otherVars, si, startTime, stack, path, edgeHistory, emitted>>

\* findAllPaths is entered: paths and stats are reset, the start nodes found
FindAllPathsBegin ==
  /\ pc = "idle"
  /\ \E r \in Requests :
       /\ StartNodesOf(graphData.nodes, r.startStation) # <<>>
       /\ req' = r
       /\ startNodes' = StartNodesOf(graphData.nodes, r.startStation)
  /\ paths' = <<>>
  /\ stats' = [skipped_same_station_transfers |-> 0]
  /\ si' = 1
  /\ pc' = "loop"
  /\ UNCHANGED <<dataVars, otherVars, startTime, stack, path, edgeHistory, emitted>>

Frame(idx, time, transfers, trains, last) ==
  [currentIdx |-> idx, currentTime |-> time, transfersUsed |-> transfers,
   trainSequence |-> trains, lastTransferStation |-> last, next |-> 1]

\* the loop over startNodes calls dfs for the next start node
StartDfs ==
  /\ pc = "loop"
  /\ si <= Len(startNodes)
  /\ LET startIdx == startNodes[si]
         t == ParseTime(graphData.nodes[startIdx][3])
     IN /\ startTime' = t
        /\ stack' = <<Frame(startIdx, t, 0, <<graphData.nodes[startIdx][2]>>, NoStation)>>
        /\ path' = <<startIdx>>
  /\ edgeHistory' = <<>>
  /\ pc' = "dfs"
  /\ UNCHANGED <<dataVars, otherVars, paths, stats, req, startNodes, si, emitted>>

Top == stack[Len(stack)]

Front(seq) == SubSeq(seq, 1, Len(seq) - 1)

\* dfs has reached the destination with a non-empty edge history
AtDestination ==
  /\ graphData.nodes[Top.currentIdx][1] = req.endStation
  /\ Len(edgeHistory) > 0

TopSummary ==
  SummarizePath(graphData.nodes, edgeHistory, Top.trainSequence, startTime,
                Top.currentTime, trainInfo)

\* the top call of dfs returns: its caller pops the two arrays (backtrack);
\* the outermost call returns to the loop over the start nodes
ReturnFromDfs ==
  /\ stack' = Front(stack)
  /\ IF Len(stack) > 1
     THEN /\ edgeHistory' = Front(edgeHistory)
          /\ path' = Front(path)
          /\ UNCHANGED <<pc, si>>
     ELSE /\ edgeHistory' = <<>>
          /\ path' = <<>>
          /\ pc' = "loop"
          /\ si' = si + 1

\* destination reached and the summary is pushed to this.paths
Emit ==
  /\ pc = "dfs"
  /\ AtDestination
  /\ ~SkippedForDirection(TopSummary, directionMap)
  /\ paths' = Append(paths, TopSummary)
  /\ emitted' = Append(emitted, [trace |-> edgeHistory, start |-> path[1],
                                 summary |-> TopSummary])
  /\ ReturnFromDfs
  /\ UNCHANGED <<dataVars, otherVars, stats, req, startNodes, startTime>>

\* destination reached and the path is dropped by the directionality check
RejectDirection ==
  /\ pc = "dfs"
  /\ AtDestination
  /\ SkippedForDirection(TopSummary, directionMap)
  /\ ReturnFromDfs
  /\ UNCHANGED <<dataVars, otherVars, paths, stats, req, startNodes, startTime, emitted>>

\* adjacency[currentIdx] || []
Neighbors == adjacencyList[Top.currentIdx]

\* the loop over the neighbors is at an edge
AtEdge ==
  /\ pc = "dfs"
  /\ ~AtDestination
  /\ Top.next <= Len(Neighbors)

Edge == Neighbors[Top.next]

\* continue: the top frame moves to its next edge
Continue == stack' = [stack EXCEPT ![Len(stack)].next = @ + 1]

\* mutant: only the kind of the edge makes a transfer
IsTransferNow_KindOnly ==
  Edge.type = "transfer"

IsTransferNow ==
  \/ Edge.type = "transfer"
  \/ graphData.nodes[Edge.to][2] # graphData.nodes[Top.currentIdx][2]

TransferStation == graphData.nodes[Top.currentIdx][1]

\* mutant: the flag is not consulted
SameStationRejected_IgnoresFlag ==
  /\ IsTransferNow
  /\ Truthy(Top.lastTransferStation)
  /\ TransferStation = Top.lastTransferStation.v

\* the consecutive-transfer check rejects the edge
SameStationRejected ==
  /\ IsTransferNow
  /\ ~req.allowSameStationConsecutiveTransfers
  /\ Truthy(Top.lastTransferStation)
  /\ TransferStation = Top.lastTransferStation.v

\* mutant: a transfer is not counted
NextTransfers_NotCounted == Top.transfersUsed

\* nextTransfers after if (isTransferNow) nextTransfers++
NextTransfers == Top.transfersUsed + (IF IsTransferNow THEN 1 ELSE 0)

\* the neighbor is already on the path, or the edge has no positive duration
SkipVisited ==
  /\ AtEdge
  /\ \/ \E k \in 1..Len(path) : path[k] = Edge.to
     \/ Edge.duration <= 0
  /\ Continue
  /\ UNCHANGED <<dataVars, otherVars, paths, stats, pc, req, startNodes, si, startTime,
                 path, edgeHistory, emitted>>

\* mutant: the visited check is missing
Unvisited_NoCheck ==
  /\ AtEdge
  /\ Edge.duration > 0

Unvisited ==
  /\ AtEdge
  /\ \A k \in 1..Len(path) : path[k] # Edge.to
  /\ Edge.duration > 0

\* a second transfer in a row at the same station: counted and skipped
SkipSameStation ==
  /\ Unvisited
  /\ SameStationRejected
  /\ stats' = [stats EXCEPT !.skipped_same_station_transfers = @ + 1]
  /\ Continue
  /\ UNCHANGED <<dataVars, otherVars, paths, pc, req, startNodes, si, startTime,
                 path, edgeHistory, emitted>>

\* the edge would exceed maxTransfers
SkipTransferLimit ==
  /\ Unvisited
  /\ ~SameStationRejected
  /\ NextTransfers > req.maxTransfers
  /\ Continue
  /\ UNCHANGED <<dataVars, otherVars, paths, stats, pc, req, startNodes, si, startTime,
                 path, edgeHistory, emitted>>

\* the train sequence passed down: extended when the neighbor's train is not its last
NextTrainSequence ==
  LET neighborTrain == graphData.nodes[Edge.to][2]
      seq == Top.trainSequence
  IN IF neighborTrain = seq[Len(seq)] THEN seq ELSE Append(seq, neighborTrain)

\* the edge is taken: push on both arrays and call dfs on the neighbor
Descend ==
  /\ Unvisited
  /\ ~SameStationRejected
  /\ NextTransfers <= req.maxTransfers
  /\ path' = Append(path, Edge.to)
  /\ edgeHistory' = Append(edgeHistory,
                           [from |-> Top.currentIdx, to |-> Edge.to,
                            type |-> Edge.type, duration |-> Edge.duration])
  /\ stack' = Append([stack EXCEPT ![Len(stack)].next = @ + 1],
                     Frame(Edge.to, Top.currentTime + Edge.duration, NextTransfers,
                           NextTrainSequence,
                           IF IsTransferNow THEN SomeStation(TransferStation)
                           ELSE Top.lastTransferStation))
  /\ UNCHANGED <<dataVars, otherVars, paths, stats, pc, req, startNodes, si, startTime, emitted>>

\* all neighbors done: the call returns to its caller
Backtrack ==
  /\ pc = "dfs"
  /\ ~AtDestination
  /\ Top.next > Len(Neighbors)
  /\ ReturnFromDfs
  /\ UNCHANGED <<dataVars, otherVars, paths, stats, req, startNodes, startTime, emitted>>

\* after the loop: sort, add ids, return this.paths
SortAndReturn ==
  /\ pc = "loop"
  /\ si > Len(startNodes)
  /\ paths' = AddIds(SortPaths(paths))
  /\ pc' = "done"
  /\ UNCHANGED <<dataVars, otherVars, stats, req, startNodes, si, startTime, stack, path,
                 edgeHistory, emitted>>

Next ==
  \/ FindAllPathsNoStart
  \/ FindAllPathsBegin
  \/ StartDfs
  \/ Emit
  \/ RejectDirection
  \/ SkipVisited
  \/ SkipSameStation
  \/ SkipTransferLimit
  \/ Descend
  \/ Backtrack
  \/ SortAndReturn

Spec == Init /\ [][Next]_vars

\* findAllPaths is synchronous code on the one JavaScript thread: once called
\* it keeps running, a step of it is taken whenever one can be
SpecFair == Init /\ [][Next]_vars /\ WF_vars(Next)

(***************************************************************************)
(* Vocabulary of the properties: walks of the loaded graph, described      *)
(* without reference to the search.                                        *)
(***************************************************************************)
StationOf(i) == graphData.nodes[i][1]

TrainOf(i) == graphData.nodes[i][2]

TimeOf(i) == graphData.nodes[i][3]

\* the edges of the adjacency list as edge-history entries
AdjacencyEdges ==
  UNION {{[from |-> i, to |-> adjacencyList[i][k].to,
           type |-> adjacencyList[i][k].type,
           duration |-> adjacencyList[i][k].duration] : k \in DOMAIN adjacencyList[i]}
         : i \in DOMAIN adjacencyList}

\* the nodes of a trace: its start node and the targets of its edges
TraceNodes(start, trace) == <<start>> \o [k \in 1..Len(trace) |-> trace[k].to]

Distinct(seq) == \A i, j \in 1..Len(seq) : i # j => seq[i] # seq[j]

RECURSIVE WalksOfLength(_)
\* the walks of n edges from a node of the start station that repeat no node and
\* have no node of the end station before their last node
WalksOfLength(n) ==
  IF n = 1
  THEN {<<e>> : e \in {d \in AdjacencyEdges :
                         /\ StationOf(d.from) = req.startStation
                         /\ d.to # d.from
                         /\ d.duration > 0}}
  ELSE {Append(w, e) : <<w, e>> \in
          {we \in WalksOfLength(n - 1) \X AdjacencyEdges :
             /\ we[2].from = we[1][n - 1].to
             /\ StationOf(we[2].from) # req.endStation
             /\ we[2].duration > 0
             /\ \A k \in 1..(n - 1) : we[2].to # we[1][k].from /\ we[2].to # we[1][k].to}}

Walks == UNION {WalksOfLength(n) : n \in 1..(Len(graphData.nodes) - 1)}

\* a transfer step: an edge of kind transfer, or one between nodes of two trains
TransferStep(e) == e.type = "transfer" \/ TrainOf(e.to) # TrainOf(e.from)

TransferSteps(w) == {k \in 1..Len(w) : TransferStep(w[k])}

KindTransfers(w) == {k \in 1..Len(w) : w[k].type = "transfer"}

\* no two transfer steps that follow each other are made at the same station
NoRepeatedTransferStation(w) ==
  \A i, j \in TransferSteps(w) :
     (i < j /\ \A k \in TransferSteps(w) : ~(i < k /\ k < j))
       => StationOf(w[i].from) # StationOf(w[j].from)

RECURSIVE BoardedUpTo(_, _)
\* the trains of the nodes of a trace, a train that stays the same listed once
BoardedUpTo(w, k) ==
  IF k = 0 THEN <<TrainOf(w[1].from)>>
  ELSE LET b == BoardedUpTo(w, k - 1)
       IN IF TrainOf(w[k].to) = b[Len(b)] THEN b ELSE Append(b, TrainOf(w[k].to))

Boarded(w) == BoardedUpTo(w, Len(w))

\* no two consecutive trains with known vectors have opposite signs on a line
DirectionCompatible(seq) ==
  \A i \in 1..(Len(seq) - 1) :
     (seq[i] \in DOMAIN directionMap /\ seq[i + 1] \in DOMAIN directionMap)
       => LET a == directionMap[seq[i]]
              b == directionMap[seq[i + 1]]
          IN \A l \in 1..Min2(Len(a), Len(b)) : a[l] * b[l] >= 0

\* a feasible trace of the request; the direction check applies, as in the
\* enumerator's contract, to traces with at least one edge of kind transfer
Feasible(w) ==
  /\ StationOf(w[Len(w)].to) = req.endStation
  /\ Cardinality(TransferSteps(w)) <= req.maxTransfers
  /\ req.allowSameStationConsecutiveTransfers \/ NoRepeatedTransferStation(w)
  /\ KindTransfers(w) # {} => DirectionCompatible(Boarded(w))

\* minutes of the day of an "HH:MM" value
MinuteOfDay(t) == t[1] * 60 + t[2]

WithoutId(p) == [p EXCEPT !.id = 0]

Occurrences(seq, x) == Cardinality({i \in 1..Len(seq) : seq[i] = x})

C2_DirectionCompatible ==
  \A i \in 1..Len(paths) :
     paths[i].transfer_count >= 1 => DirectionCompatible(paths[i].train_sequence)

\* a returned transfer path whose consecutive trains share a line
C2_Witness ==
  /\ pc = "done"
  /\ \E i \in 1..Len(paths) :
       /\ paths[i].transfer_count >= 1
       /\ \E k \in 1..(Len(paths[i].train_sequence) - 1) :
            LET t1 == paths[i].train_sequence[k]
                t2 == paths[i].train_sequence[k + 1]
            IN /\ t1 \in DOMAIN directionMap
               /\ t2 \in DOMAIN directionMap
               /\ \E l \in 1..Min2(Len(directionMap[t1]), Len(directionMap[t2])) :
                    directionMap[t1][l] * directionMap[t2][l] > 0

(***************************************************************************)
(* C23: every train of the train_sequence of an emitted summary is ridden: *)
(* the trace has an edge that is not a transfer between two nodes of that  *)
(* train; the first edge of a trace is not a transfer to another train.    *)
(***************************************************************************)
C23_TrainsRidden ==
  \A i \in 1..Len(emitted) :
     LET w == emitted[i].trace
         s == emitted[i].summary
     IN /\ \A n \in 1..Len(s.train_sequence) :
             \E k \in 1..Len(w) : /\ w[k].type # "transfer"
                                  /\ TrainOf(w[k].from) = s.train_sequence[n]
                                  /\ TrainOf(w[k].to) = s.train_sequence[n]
        /\ ~(w[1].type = "transfer" /\ TrainOf(w[1].to) # TrainOf(w[1].from))

(***************************************************************************)
(* C24: findAllPaths returns, whatever the graph (cycles of travel and     *)
(* transfer edges included), and every emitted trace has at most           *)
(* maxTransfers transfer steps, a transfer step being an edge of kind      *)
(* transfer or an edge between nodes of two trains.                        *)
(***************************************************************************)
C24_TransfersBounded ==
  \A i \in 1..Len(emitted) :
     Cardinality(TransferSteps(emitted[i].trace)) <= req.maxTransfers

C24_Terminates == <>(pc = "done") /\ []C24_TransfersBounded

\* findAllPaths has returned on a graph with a cycle, having emitted a trace
\* with maxTransfers transfer steps and skipped an edge into the path
C24_Witness ==
  /\ pc = "done"
  /\ req.maxTransfers >= 1
  /\ \E i \in 1..Len(emitted) :
       Cardinality(TransferSteps(emitted[i].trace)) = req.maxTransfers
  /\ \E j, k \in 1..Len(graphData.edges) :
       /\ graphData.edges[j].from = graphData.edges[k].to
       /\ graphData.edges[j].to = graphData.edges[k].from

(***************************************************************************)
(* C3: for every emitted summary, transfer_count = |train_sequence| - 1    *)
(* = |transfer_details| = the number of transfer edges of its trace.       *)
(***************************************************************************)
C3_TransferCount ==
  \A i \in 1..Len(emitted) :
     LET s == emitted[i].summary
     IN /\ s.transfer_count = Len(s.train_sequence) - 1
        /\ s.transfer_count = Len(s.transfer_details)
        /\ s.transfer_count = Cardinality(KindTransfers(emitted[i].trace))

(***************************************************************************)
(* C4: no node occurs twice on a path: during the search the current node  *)
(* list is the start node followed by the targets of the edge history and  *)
(* its entries are pairwise distinct, and so are the nodes of every        *)
(* emitted trace.                                                          *)
(***************************************************************************)
C4_NoNodeTwice ==
  /\ pc = "dfs" => /\ path = TraceNodes(path[1], edgeHistory)
                   /\ Distinct(path)
  /\ \A i \in 1..Len(emitted) :
       Distinct(TraceNodes(emitted[i].start, emitted[i].trace))

\* back in a call after a deeper call returned, with an edge into the path skipped
C4_Witness ==
  /\ pc = "dfs"
  /\ Len(path) >= 2
  /\ \E k \in 1..(Top.next - 1) :
       k <= Len(Neighbors) /\ \E n \in 1..Len(path) : path[n] = Neighbors[k].to
  /\ \E k \in 1..(Top.next - 1) :
       k <= Len(Neighbors) /\ \A n \in 1..Len(path) : path[n] # Neighbors[k].to

(***************************************************************************)
(* C5 as stated: for every emitted summary, total_minutes is the sum of    *)
(* the durations of the edges of its trace, and total_minutes is           *)
(* (arrival_time - departure_time) mod 1440.                               *)
(***************************************************************************)
C5_Original ==
  \A i \in 1..Len(emitted) :
     LET s == emitted[i].summary
     IN /\ s.total_minutes = SumDurations(emitted[i].trace, Len(emitted[i].trace))
        /\ s.total_minutes =
             (MinuteOfDay(s.arrival_time) - MinuteOfDay(s.departure_time)) % MinutesPerDay

(***************************************************************************)
(* C5 amended: for every emitted summary, total_minutes is the sum of the  *)
(* durations of the edges of its trace, and (arrival_time -                *)
(* departure_time) mod 1440 is total_minutes mod 1440.                     *)
(***************************************************************************)
C5_TotalMinutes ==
  \A i \in 1..Len(emitted) :
     LET s == emitted[i].summary
     IN /\ s.total_minutes = SumDurations(emitted[i].trace, Len(emitted[i].trace))
        /\ (MinuteOfDay(s.arrival_time) - MinuteOfDay(s.departure_time)) % MinutesPerDay
             = s.total_minutes % MinutesPerDay

\* an emitted path of a day or more, and one that departs at "00:00"
C5_Witness ==
  /\ \E i \in 1..Len(emitted) : emitted[i].summary.total_minutes >= MinutesPerDay
  /\ \E i \in 1..Len(emitted) : emitted[i].summary.departure_time = <<0, 0>>

(***************************************************************************)
(* C6: for every emitted summary, departure_time is the time stored in the *)
(* start node of its trace and arrival_time is the time stored in the node *)
(* at which its trace ends.                                                *)
(***************************************************************************)
C6_NodeTimes ==
  \A i \in 1..Len(emitted) :
     LET s == emitted[i].summary
         w == emitted[i].trace
     IN /\ s.departure_time = TimeOf(emitted[i].start)
        /\ s.arrival_time = TimeOf(w[Len(w)].to)

\* the station of the last transfer step of an edge history, if it has one
LastTransferStationOf(eh) ==
  IF TransferSteps(eh) = {} THEN NoStation
  ELSE LET last == CHOOSE k \in TransferSteps(eh) : \A j \in TransferSteps(eh) : j <= k
       IN SomeStation(StationOf(eh[last].from))

\* the search is at an edge it rejects as a second transfer in a row at a station
AtRepeatedTransfer ==
  /\ AtEdge
  /\ \A k \in 1..Len(path) : path[k] # Edge.to
  /\ Edge.duration > 0
  /\ ~req.allowSameStationConsecutiveTransfers
  /\ Edge.type = "transfer" \/ TrainOf(Edge.to) # TrainOf(Top.currentIdx)
  /\ LastTransferStationOf(edgeHistory) = SomeStation(StationOf(Top.currentIdx))

C7_State ==
  /\ ~req.allowSameStationConsecutiveTransfers =>
       \A i \in 1..Len(emitted) : NoRepeatedTransferStation(emitted[i].trace)
  /\ req.allowSameStationConsecutiveTransfers =>
       stats.skipped_same_station_transfers = 0

C7_Step ==
  /\ AtRepeatedTransfer =>
       stats'.skipped_same_station_transfers = stats.skipped_same_station_transfers + 1
  /\ (~AtRepeatedTransfer /\ pc # "idle") => stats' = stats

C8_Sorted ==
  pc = "done" =>
    \A i \in 1..(Len(paths) - 1) :
       \/ paths[i].total_minutes < paths[i + 1].total_minutes
       \/ /\ paths[i].total_minutes = paths[i + 1].total_minutes
          /\ MinuteOfDay(paths[i].departure_time) <= MinuteOfDay(paths[i + 1].departure_time)

\* the returned list is not in emission order: a shorter path was emitted after a
\* longer one, and of two paths of equal length the later departure came first
C8_Witness ==
  /\ pc = "done"
  /\ \E i, j \in 1..Len(emitted) :
       i < j /\ emitted[j].summary.total_minutes < emitted[i].summary.total_minutes
  /\ \E i, j \in 1..Len(emitted) :
       /\ i < j
       /\ emitted[j].summary.total_minutes = emitted[i].summary.total_minutes
       /\ MinuteOfDay(emitted[j].summary.departure_time)
            < MinuteOfDay(emitted[i].summary.departure_time)

(***************************************************************************)
(* The post-processing functions applied on their own: a list of path      *)
(* summaries as findAllPaths returns them (summaries of traces over the    *)
(* node table, with ids), filtered by a window, merged, and merged again.  *)
(***************************************************************************)
HistoryEdge(f, t, ty, d) == [from |-> f, to |-> t, type |-> ty, duration |-> d]

\* traces over GraphNodes with the train sequence dfs builds along each
SampleTraces ==
  { [trace |-> <<HistoryEdge(1, 2, "travel", 30), HistoryEdge(2, 7, "transfer", 10),
                 HistoryEdge(7, 5, "travel", 15), HistoryEdge(5, 6, "travel", 15)>>,
     trains |-> <<"T1", "T2">>],
    [trace |-> <<HistoryEdge(1, 2, "travel", 30), HistoryEdge(2, 3, "travel", 15),
                 HistoryEdge(3, 5, "transfer", 10), HistoryEdge(5, 6, "travel", 15)>>,
     trains |-> <<"T1", "T2">>],
    [trace |-> <<HistoryEdge(1, 2, "travel", 30), HistoryEdge(2, 6, "travel", 40)>>,
     trains |-> <<"T1", "T2">>],
    [trace |-> <<HistoryEdge(4, 8, "travel", 30)>>,
     trains |-> <<"T3">>],
    [trace |-> <<HistoryEdge(1, 2, "travel", 30), HistoryEdge(2, 7, "transfer", 10),
                 HistoryEdge(7, 4, "transfer", 10), HistoryEdge(4, 8, "travel", 30)>>,
     trains |-> <<"T1", "T2", "T3">>],
    [trace |-> <<HistoryEdge(9, 7, "travel", 520), HistoryEdge(7, 5, "travel", 15),
                 HistoryEdge(5, 6, "travel", 20)>>,
     trains |-> <<"T2">>] }

SampleSchedule ==
  << TrainRecord("T1", TRUE, NoDirection),
     TrainRecord("T2", FALSE, NoDirection),
     TrainRecord("T3", FALSE, NoDirection) >>

SamplePaths ==
  { LET t0 == ParseTime(GraphNodes[x.trace[1].from][3])
    IN SummarizePath(GraphNodes, x.trace, x.trains, t0,
                     t0 + SumDurations(x.trace, Len(x.trace)),
                     ExtractTrainInfo(SampleSchedule))
    : x \in SampleTraces }

\* the window_minutes handed to filterPathsByTimeWindow
Windows == {-5, 0, 9, 10, 40, 525}

InitPost ==
  /\ graphData = [nodes |-> GraphNodes, edges |-> <<>>]
  /\ scheduleData = SampleSchedule
  /\ adjacencyList = BuildAdjacencyList(graphData.nodes, graphData.edges)
  /\ trainInfo = ExtractTrainInfo(scheduleData)
  /\ directionMap = ExtractDirectionalityMap(scheduleData)
  /\ paths = <<>>
  /\ stats = [skipped_same_station_transfers |-> 0]
  /\ pc = "post"
  /\ req = NoRequest
  /\ startNodes = <<>>
  /\ si = 0
  /\ startTime = 0
  /\ stack = <<>>
  /\ path = <<>>
  /\ edgeHistory = <<>>
  /\ emitted = <<>>
  /\ \E n \in 0..MaxListLen :
       \E l \in [1..n -> SamplePaths] :
          post = [NoPost EXCEPT !.stage = "input", !.input = AddIds(l)]
  /\ RouterUnused
  /\ TimerUnused
  /\ UtilityUnused
  /\ LimiterUnused
  /\ PortUnused

postFrame ==
  <<dataVars, paths, stats, pc, req, startNodes, si, startTime, stack, path,
    edgeHistory, emitted, routerVars, offRouteVars>>

\* filterPathsByTimeWindow(input, w)
PostFilter ==
  /\ post.stage = "input"
  /\ \E w \in Windows :
       LET r == FilterPathsByTimeWindow(post.input, w)
       IN post' = [post EXCEPT !.stage = "filtered", !.window = w,
                               !.filtered = r.paths,
                               !.fastestMinutes = r.fastestMinutes]
  /\ UNCHANGED postFrame

\* mergePathsByTrainSequence(filtered)
PostMerge ==
  /\ post.stage = "filtered"
  /\ post' = [post EXCEPT !.stage = "merged",
                          !.merged = MergePathsByTrainSequence(post.filtered)]
  /\ UNCHANGED postFrame

\* mergePathsByTrainSequence(merged)
PostMergeAgain ==
  /\ post.stage = "merged"
  /\ post' = [post EXCEPT !.stage = "remerged",
                          !.again = MergePathsByTrainSequence(post.merged)]
  /\ UNCHANGED postFrame

NextPost == PostFilter \/ PostMerge \/ PostMergeAgain

SpecPost == InitPost /\ [][NextPost]_vars

\* the positions of the input whose path is within the window of the fastest
WithinWindow ==
  LET totals == {post.input[i].total_minutes : i \in 1..Len(post.input)}
      fastest == CHOOSE m \in totals : \A n \in totals : m <= n
      window == IF post.window < 0 THEN 0 ELSE post.window
  IN {i \in 1..Len(post.input) : post.input[i].total_minutes <= fastest + window}

\* the k-th smallest element of a set of positions
KthOf(S, k) == CHOOSE i \in S : Cardinality({j \in S : j < i}) = k - 1

(***************************************************************************)
(* C9: filterPathsByTimeWindow(paths, w) returns the input paths with      *)
(* total_minutes <= F + max(w, 0), F the least total_minutes of the input, *)
(* each once and in input order.                                           *)
(***************************************************************************)
C9_WindowFilter ==
  post.stage \in {"filtered", "merged", "remerged"} =>
    /\ Len(post.filtered) = Cardinality(WithinWindow)
    /\ \A k \in 1..Len(post.filtered) :
         post.filtered[k] = post.input[KthOf(WithinWindow, k)]

\* a positive window with a path exactly at the bound kept and a path dropped
C9_Witness ==
  /\ post.stage = "filtered"
  /\ post.window > 0
  /\ Len(post.filtered) < Len(post.input)
  /\ \E k \in 1..Len(post.filtered) :
       post.filtered[k].total_minutes = post.fastestMinutes + post.window

(***************************************************************************)
(* C10: merging a merged list gives the merged list again, the             *)
(* transfer_options of every path included.                                *)
(***************************************************************************)
C10_MergeIdempotent ==
  post.stage = "remerged" => post.again = post.merged

\* the merge key as the components of a path summary
KeyOf(p) ==
  <<p.train_sequence, p.type, p.transfer_count, p.departure_time,
    p.arrival_time, p.total_minutes>>

\* the merge group of a key: the positions of the paths handed to merge with it
GroupOf(key) == {i \in 1..Len(post.filtered) : KeyOf(post.filtered[i]) = key}

\* the least position of a non-empty set of positions
FirstOf(S) == CHOOSE i \in S : \A j \in S : i <= j

\* a sequence without the repetitions of its earlier elements
FirstOccurrences(s) ==
  LET keep == {i \in 1..Len(s) : \A j \in 1..(i - 1) : s[j] # s[i]}
  IN [k \in 1..Cardinality(keep) |-> s[KthOf(keep, k)]]

\* the i-th transfer details of the paths of a group, in input order
DetailsAtStep(G, i) ==
  [n \in 1..Cardinality(G) |-> post.filtered[KthOf(G, n)].transfer_details[i]]

(***************************************************************************)
(* C11: in the output of mergePathsByTrainSequence no two paths have the   *)
(* same merge key, and the key of every input path is the key of exactly   *)
(* one output path.                                                        *)
(***************************************************************************)
C11_DistinctKeys ==
  post.stage \in {"merged", "remerged"} =>
    /\ \A i, j \in 1..Len(post.merged) :
         i # j => KeyOf(post.merged[i]) # KeyOf(post.merged[j])
    /\ \A i \in 1..Len(post.filtered) :
         Cardinality({k \in 1..Len(post.merged) :
                        KeyOf(post.merged[k]) = KeyOf(post.filtered[i])}) = 1

\* a merge that joins two paths and keeps two groups apart
C11_Witness ==
  /\ post.stage = "merged"
  /\ Len(post.merged) >= 2
  /\ Len(post.merged) < Len(post.filtered)

Ranked(ps) ==
  \A i \in 1..(Len(ps) - 1) :
     \/ ps[i].total_minutes < ps[i + 1].total_minutes
     \/ /\ ps[i].total_minutes = ps[i + 1].total_minutes
        /\ MinuteOfDay(ps[i].departure_time) <= MinuteOfDay(ps[i + 1].departure_time)

(***************************************************************************)
(* C27: merging preserves the ranking.  When the list handed to the window *)
(* filter is in ascending order of (total_minutes, departure_time), the    *)
(* merged list is in that order too, and the fastestMinutes the filter     *)
(* reports (summary.fastest_minutes) is the total_minutes of the first     *)
(* merged path, the one the route numbers 1.                               *)
(***************************************************************************)
C27_RankingPreserved ==
  (post.stage \in {"merged", "remerged"} /\ Ranked(post.input)) =>
     /\ Ranked(post.filtered)
     /\ Ranked(post.merged)
     /\ (Len(post.merged) > 0 => post.fastestMinutes = post.merged[1].total_minutes)

\* a ranked list of three paths, all within the window, of which the merge
\* made two: the group of two first
C27_Witness ==
  /\ post.stage = "merged"
  /\ Ranked(post.input)
  /\ Len(post.filtered) = 3
  /\ Len(post.merged) = 2
  /\ Cardinality(GroupOf(KeyOf(post.merged[1]))) = 2
  /\ post.merged[1].total_minutes < post.merged[2].total_minutes

(***************************************************************************)
(* The router (routes/pathfinding.js) serving requests.  Node runs one     *)
(* callback at a time: an action is the code a handler runs from one await *)
(* to the next.  loadInitialData has two awaits, the read of the graph     *)
(* file and the read of the schedule file; POST /find awaits only the lazy *)
(* load, so from findAllPaths to res.json it is one step.                  *)
(***************************************************************************)
\* at most this many calls of loadInitialData, the one at startup included
MaxLoads == 2

ConfigAlgorithmMaxTransfers == 2

ConfigAlgorithmTimeWindowMinutes == 90

ConfigValidationMaxTransfers == 5

ConfigValidationMaxTimeWindowMinutes == 480

ConfigValidationMinStationNameLength == 1

ConfigValidationMaxStationNameLength == 50

\* the node table after a timetable change: T1 calls at Y five minutes later
LaterNodes == [GraphNodes EXCEPT ![2] = <<"Y", "T1", <<8, 35>>>>]

\* the graph files that may be on disk when the graph file is read
RouterGraphFiles ==
  << [nodes |-> GraphNodes, edges |-> PickEdges({2, 3, 4, 5, 6, 7, 8})],
     [nodes |-> LaterNodes,
      edges |-> << RawEdge(LaterNodes[2], NodeY2, 5, 0, "transfer"),
                   RawEdge(NodeY2, NodeW2, 15, 0, "travel"),
                   RawEdge(NodeW2, NodeZ2, 15, 0, "travel") >>] >>

\* the schedule file on disk
RouterScheduleFile == SampleSchedule

\* the bodies clients post to /find
FindBodies ==
  { Body("Y", "Z", Undefined, Undefined, UndefinedFlag),
    Body("Y", "Z", Given(3), Given(10), Given(TRUE)),
    Body("Y", "Z", Given(6), Undefined, UndefinedFlag),
    Body("Q", "Z", Undefined, Undefined, UndefinedFlag),
    Body("Y", "Q", Undefined, Undefined, UndefinedFlag) }

\* String.prototype.length of the station names of the model
StationNameLength(name) == IF name = "" THEN 0 ELSE 1

\* validatePathfindingRequest: the field of the 400 response, "" when next() is called
ValidatePathfindingRequest(body) ==
  IF body.start_station = "" THEN "start_station"
  ELSE IF body.end_station = "" THEN "end_station"
  ELSE IF \/ StationNameLength(body.start_station) < ConfigValidationMinStationNameLength
          \/ StationNameLength(body.start_station) > ConfigValidationMaxStationNameLength
       THEN "start_station"
  ELSE IF \/ StationNameLength(body.end_station) < ConfigValidationMinStationNameLength
          \/ StationNameLength(body.end_station) > ConfigValidationMaxStationNameLength
       THEN "end_station"
  ELSE IF body.start_station = body.end_station THEN "end_station"
  ELSE IF /\ body.max_transfers.has
          /\ \/ body.max_transfers.v < 0
             \/ body.max_transfers.v > ConfigValidationMaxTransfers
       THEN "max_transfers"
  ELSE IF /\ body.window_minutes.has
          /\ \/ body.window_minutes.v < 0
             \/ body.window_minutes.v > ConfigValidationMaxTimeWindowMinutes
       THEN "window_minutes"
  ELSE ""

\* finalMaxTransfers, finalWindowMinutes, finalAllowSameStationTransfers
FinalOptions(body) ==
  [maxTransfers |-> IF body.max_transfers.has THEN body.max_transfers.v
                    ELSE ConfigAlgorithmMaxTransfers,
   windowMinutes |-> IF body.window_minutes.has THEN body.window_minutes.v
                     ELSE ConfigAlgorithmTimeWindowMinutes,
   allowSameStationTransfers |->
      IF body.allow_same_station_consecutive_transfers.has
      THEN body.allow_same_station_consecutive_transfers.v
      ELSE FALSE]

\* mutant: the ids given by findAllPaths are left in place
ReassignIds_Skipped(mergedPaths) == mergedPaths

\* mergedPaths.forEach((entry, idx) => { entry.id = idx + 1 })
ReassignIds(mergedPaths) ==
  [i \in 1..Len(mergedPaths) |-> [mergedPaths[i] EXCEPT !.id = i]]

\* mutant: the statistics as they were before this request's findAllPaths
GetStats_Before(statsBefore, statsAfter) == statsBefore

\* pathfindingService.getStats() after this request's findAllPaths
GetStats(statsBefore, statsAfter) == statsAfter

CountWhere(ps, Test(_)) == Len(SelectSeq(ps, Test))

\* Math.min(Math.max(p.transfer_count || 0, 0), 2)
BreakdownSlot(p) == Min2(Max2(p.transfer_count, 0), 2)

\* the handler of POST /find from findAllPaths to the response, the service
\* having statistics statsBefore: the service after it and the body of the 200
\* response (generated_at left out)
HandleFind(statsBefore, data, body) ==
  LET final == FinalOptions(body)
      found == FindAllPaths(statsBefore, data.nodes, data.adjacency, body.start_station,
                            body.end_station, data.trainInfo, data.directionMap,
                            [maxTransfers |-> final.maxTransfers,
                             allowSameStationConsecutiveTransfers |->
                                final.allowSameStationTransfers])
      allPaths == found.returned
      after == [paths |-> found.paths, stats |-> found.stats]
      filtered == FilterPathsByTimeWindow(allPaths, final.windowMinutes)
      mergedPaths == ReassignIds(MergePathsByTrainSequence(filtered.paths))
      got == GetStats(statsBefore, after.stats)
      directPaths == SelectSeq(mergedPaths, LAMBDA p : p.type = "Direct")
  IN [service |-> after,
      payload |->
        IF Len(allPaths) = 0
        THEN [NoPayload EXCEPT !.shape = "empty",
                               !.start_station = body.start_station,
                               !.end_station = body.end_station,
                               !.window_minutes = final.windowMinutes]
        ELSE [NoPayload EXCEPT
                !.shape = "paths",
                !.start_station = body.start_station,
                !.end_station = body.end_station,
                !.raw_path_count = Len(allPaths),
                !.window_minutes = final.windowMinutes,
                !.fastest_minutes = filtered.fastestMinutes,
                !.filtered_path_count = Len(filtered.paths),
                !.merged_path_count = Len(mergedPaths),
                !.skipped_same_station_transfers = got.skipped_same_station_transfers,
                !.paths = mergedPaths,
                !.direct_paths =
                   [total |-> Len(directPaths),
                    fast |-> CountWhere(directPaths, LAMBDA p : p.is_fast),
                    slow |-> CountWhere(directPaths, LAMBDA p : ~p.is_fast)],
                !.transfer_breakdown =
                   [k \in 1..3 |->
                      CountWhere(mergedPaths, LAMBDA p : BreakdownSlot(p) = k - 1)]]]

\* !graphData || !scheduleData || !adjacencyList is false
DataLoaded ==
  /\ origin["graphData"] # 0
  /\ origin["scheduleData"] # 0
  /\ origin["adjacencyList"] # 0

\* the module variables the handler of /find hands to findAllPaths
FindReads == {"graphData", "adjacencyList", "trainInfo", "directionMap"}

\* the response sent to client c and what its handler read, given the origins
\* at that moment
Response(c, kind, status, body, payload, reads, orig, done) ==
  [client |-> c, kind |-> kind, status |-> status, body |-> body, payload |-> payload,
   oneLoad |-> /\ \A v, w \in reads : orig[v] = orig[w]
               /\ \A v \in reads : orig[v] \in done,
   statsBefore |-> stats]

dfsVars == <<pc, req, startNodes, si, startTime, stack, path, edgeHistory, emitted>>

\* the module variables are null, loadInitialData() has been called at startup
\* and waits for the graph file
InitRouter ==
  /\ graphData = [nodes |-> <<>>, edges |-> <<>>]
  /\ scheduleData = <<>>
  /\ adjacencyList = <<>>
  /\ trainInfo = <<>>
  /\ directionMap = <<>>
  /\ paths = <<>>
  /\ stats = [skipped_same_station_transfers |-> 0]
  /\ pc = "router"
  /\ req = NoRequest
  /\ startNodes = <<>>
  /\ si = 0
  /\ startTime = 0
  /\ stack = <<>>
  /\ path = <<>>
  /\ edgeHistory = <<>>
  /\ emitted = <<>>
  /\ post = NoPost
  /\ origin = [v \in ModuleVars |-> 0]
  /\ completed = {}
  /\ loads = 1
  /\ conn = [o \in Owners |->
               IF o = "boot"
               THEN [NoConn EXCEPT !.kind = "boot", !.pc = "readGraph", !.load = 1]
               ELSE NoConn]
  /\ resp = NoResponse
  /\ TimerUnused
  /\ UtilityUnused
  /\ LimiterUnused
  /\ PortUnused

\* POST /find arrives: the body is read from the socket before the route runs
PostFind(c) ==
  /\ conn[c].kind = "none"
  /\ \E body \in FindBodies :
       conn' = [conn EXCEPT ![c] = [kind |-> "find", pc |-> "received",
                                    body |-> body, load |-> 0]]
  /\ resp' = NoResponse
  /\ UNCHANGED <<dataVars, paths, stats, dfsVars, post, origin, completed, loads,
                 offRouteVars>>

\* the validation middleware answers with 400
FindRejected(c) ==
  /\ conn[c].pc = "received"
  /\ ValidatePathfindingRequest(conn[c].body) # ""
  /\ resp' = Response(c, "find", 400, conn[c].body, NoPayload, {}, origin, completed)
  /\ conn' = [conn EXCEPT ![c] = NoConn]
  /\ UNCHANGED <<dataVars, paths, stats, dfsVars, post, origin, completed, loads,
                 offRouteVars>>

\* the data is loaded: findAllPaths .. res.json in one step
FindServed(c) ==
  /\ conn[c].pc = "received"
  /\ ValidatePathfindingRequest(conn[c].body) = ""
  /\ DataLoaded
  /\ LET out == HandleFind(stats,
                         [nodes |-> graphData.nodes, adjacency |-> adjacencyList,
                            trainInfo |-> trainInfo, directionMap |-> directionMap],
                           conn[c].body)
     IN /\ paths' = out.service.paths
        /\ stats' = out.service.stats
        /\ resp' = Response(c, "find", 200, conn[c].body, out.payload, FindReads,
                            origin, completed)
  /\ conn' = [conn EXCEPT ![c] = NoConn]
  /\ UNCHANGED <<dataVars, dfsVars, post, origin, completed, loads, offRouteVars>>

\* a module variable is still null: the handler awaits loadInitialData
FindLoads(c) ==
  /\ conn[c].pc = "received"
  /\ ValidatePathfindingRequest(conn[c].body) = ""
  /\ ~DataLoaded
  /\ loads < MaxLoads
  /\ conn' = [conn EXCEPT ![c].pc = "readGraph", ![c].load = loads + 1]
  /\ loads' = loads + 1
  /\ resp' = NoResponse
  /\ UNCHANGED <<dataVars, paths, stats, dfsVars, post, origin, completed, offRouteVars>>

\* POST /reload: the handler awaits loadInitialData
Reload(c) ==
  /\ conn[c].kind = "none"
  /\ loads < MaxLoads
  /\ conn' = [conn EXCEPT ![c] = [kind |-> "reload", pc |-> "readGraph",
                                   body |-> NoBody, load |-> loads + 1]]
  /\ loads' = loads + 1
  /\ resp' = NoResponse
  /\ UNCHANGED <<dataVars, paths, stats, dfsVars, post, origin, completed, offRouteVars>>

\* the station names of the nodes (sorted in the response: a set here)
StationList == {graphData.nodes[i][1] : i \in 1..Len(graphData.nodes)}

\* GET /stations
Stations(c) ==
  /\ conn[c].kind = "none"
  /\ resp' = IF origin["graphData"] = 0
             THEN Response(c, "stations", 503, NoBody, NoPayload, {}, origin, completed)
             ELSE Response(c, "stations", 200, NoBody,
                           [NoPayload EXCEPT !.shape = "stations",
                                             !.stations = StationList],
                           {"graphData"}, origin, completed)
  /\ UNCHANGED <<dataVars, paths, stats, dfsVars, post, origin, completed, loads,
                 conn, offRouteVars>>

\* loadInitialData returned false to its caller o: the handlers answer 503
LoadFailed(o) ==
  /\ conn' = [conn EXCEPT ![o] = IF o = "boot" THEN [@ EXCEPT !.pc = "failed"]
                                  ELSE NoConn]
  /\ resp' = IF o = "boot" THEN NoResponse
             ELSE Response(o, conn[o].kind, 503, conn[o].body, NoPayload, {},
                           origin, completed)

\* graphData = await dataService.loadGraph(graphPath), with the graph file
\* that is on disk when it is read
LoadGraphRead(o) ==
  /\ conn[o].pc = "readGraph"
  /\ \E file \in 1..Len(RouterGraphFiles) : graphData' = RouterGraphFiles[file]
  /\ origin' = [origin EXCEPT !["graphData"] = conn[o].load]
  /\ conn' = [conn EXCEPT ![o].pc = "readSchedule"]
  /\ resp' = NoResponse
  /\ UNCHANGED <<scheduleData, adjacencyList, trainInfo, directionMap, paths, stats,
                 dfsVars, post, completed, loads, offRouteVars>>

\* the graph file is missing or is not JSON: loadGraph throws, nothing is assigned
LoadGraphFails(o) ==
  /\ conn[o].pc = "readGraph"
  /\ LoadFailed(o)
  /\ UNCHANGED <<dataVars, paths, stats, dfsVars, post, origin, completed, loads,
                 offRouteVars>>

\* scheduleData = await dataService.loadSchedule(schedulePath), then the three
\* assignments; loadInitialData returns true and its caller goes on: the
\* handler of /reload answers, the handler of /find runs to its response
LoadScheduleRead(o) ==
  /\ conn[o].pc = "readSchedule"
  /\ scheduleData' = RouterScheduleFile
  /\ adjacencyList' = BuildAdjacencyList(graphData.nodes, graphData.edges)
  /\ trainInfo' = ExtractTrainInfo(scheduleData')
  /\ directionMap' = ExtractDirectionalityMap(scheduleData')
  /\ graphData' = graphData
  /\ origin' = [v \in ModuleVars |-> IF v = "graphData" THEN origin[v] ELSE conn[o].load]
  /\ completed' = completed \cup {conn[o].load}
  /\ conn' = [conn EXCEPT ![o] = IF o = "boot" THEN [@ EXCEPT !.pc = "loaded"]
                                  ELSE NoConn]
  /\ IF conn[o].kind = "find"
     THEN LET out == HandleFind(stats,
                              [nodes |-> graphData'.nodes,
                                 adjacency |-> adjacencyList',
                                 trainInfo |-> trainInfo',
                                 directionMap |-> directionMap'],
                                conn[o].body)
          IN /\ paths' = out.service.paths
             /\ stats' = out.service.stats
             /\ resp' = Response(o, "find", 200, conn[o].body, out.payload, FindReads,
                                 origin', completed')
     ELSE /\ UNCHANGED <<paths, stats>>
          /\ resp' = IF o = "boot" THEN NoResponse
                     ELSE Response(o, "reload", 200, NoBody, NoPayload, {},
                                   origin', completed')
  /\ UNCHANGED <<dfsVars, post, loads, offRouteVars>>

\* the schedule file is missing or is not JSON: loadSchedule throws; graphData
\* stays assigned, the rest is as it was
LoadScheduleFails(o) ==
  /\ conn[o].pc = "readSchedule"
  /\ LoadFailed(o)
  /\ UNCHANGED <<dataVars, paths, stats, dfsVars, post, origin, completed, loads,
                 offRouteVars>>

NextRouter ==
  \/ \E c \in Clients : PostFind(c)
  \/ \E c \in Clients : FindRejected(c)
  \/ \E c \in Clients : FindServed(c)
  \/ \E c \in Clients : FindLoads(c)
  \/ \E c \in Clients : Reload(c)
  \/ \E c \in Clients : Stations(c)
  \/ \E o \in Owners : LoadGraphRead(o)
  \/ \E o \in Owners : LoadGraphFails(o)
  \/ \E o \in Owners : LoadScheduleRead(o)
  \/ \E o \in Owners : LoadScheduleFails(o)

SpecRouter == InitRouter /\ [][NextRouter]_vars

(***************************************************************************)
(* The request timeout (createRequestTimeout, middleware/validation.js,    *)
(* mounted in app.js before the body parser and the routes) around one     *)
(* POST /find.  setTimeout's callback is a macrotask: it runs only when no *)
(* JavaScript is on the stack, so not between the entry of the route       *)
(* handler and its res.json, which run without an await once the data is   *)
(* loaded.  deadlinePassed: config.api.requestTimeout ms have elapsed      *)
(* since the middleware ran; sent: the status of the response sent.        *)
(***************************************************************************)
\* the graph files loaded when the request arrives
TimeoutGraphFiles ==
  { [nodes |-> GraphNodes, edges |-> PickEdges(sel)]
    : sel \in {{2, 3, 4, 5, 6, 7, 8}, {3, 4, 6, 9}, {1, 2, 10}} }

\* the timer is set, the body of the request is being read
InitTimeout ==
  /\ graphData \in TimeoutGraphFiles
  /\ scheduleData \in ScheduleFiles
  /\ adjacencyList = BuildAdjacencyList(graphData.nodes, graphData.edges)
  /\ trainInfo = ExtractTrainInfo(scheduleData)
  /\ directionMap = ExtractDirectionalityMap(scheduleData)
  /\ paths = <<>>
  /\ stats = [skipped_same_station_transfers |-> 0]
  /\ pc = "idle"
  /\ req = NoRequest
  /\ startNodes = <<>>
  /\ si = 0
  /\ startTime = 0
  /\ stack = <<>>
  /\ path = <<>>
  /\ edgeHistory = <<>>
  /\ emitted = <<>>
  /\ post = NoPost
  /\ RouterUnused
  /\ deadlinePassed = FALSE
  /\ sent = "none"
  /\ late = <<>>
  /\ UtilityUnused
  /\ LimiterUnused
  /\ PortUnused

\* the clock reaches the deadline, whatever the thread is doing; the timer is
\* cleared once a response has been sent (res.on('finish'))
DeadlinePasses ==
  /\ ~deadlinePassed
  /\ sent = "none"
  /\ deadlinePassed' = TRUE
  /\ UNCHANGED <<dataVars, paths, stats, dfsVars, post, routerVars, sent, late,
                 utilityVars, limiterVars, portVars>>

\* the callback of setTimeout runs, the route handler not having been entered:
\* if (!res.headersSent) res.status(408).json(...)
TimeoutCallback ==
  /\ deadlinePassed
  /\ pc = "idle"
  /\ sent = "none"
  /\ sent' = "408"
  /\ UNCHANGED <<dataVars, paths, stats, dfsVars, post, routerVars, deadlinePassed,
                 late, utilityVars, limiterVars, portVars>>

\* findAllPaths has returned: the handler goes on to res.json with the paths
RespondWithPaths ==
  /\ pc = "done"
  /\ sent = "none"
  /\ sent' = "200"
  /\ UNCHANGED <<dataVars, paths, stats, dfsVars, post, routerVars, deadlinePassed,
                 late, utilityVars, limiterVars, portVars>>

\* findAllPaths has returned after the 408 was sent: the handler goes on to
\* res.json all the same (it does not look at res.headersSent), and the call
\* throws since the headers are sent
RespondLate ==
  /\ pc = "done"
  /\ sent = "408"
  /\ late = <<>>
  /\ late' = <<"200">>
  /\ UNCHANGED <<dataVars, paths, stats, dfsVars, post, routerVars, deadlinePassed,
                 sent, utilityVars, limiterVars, portVars>>

NextTimeout ==
  \/ Next
  \/ DeadlinePasses
  \/ TimeoutCallback
  \/ RespondWithPaths
  \/ RespondLate

SpecTimeout == InitTimeout /\ [][NextTimeout]_vars

\* C19: no 200 response with the paths of the enumeration is sent once the
\* timeout of the request has passed
C19_NoPathsAfterTimeout == ~(sent = "200" /\ deadlinePassed)

\* C28: a request gets one response at most: once the timer or the route
\* handler has written the response, the other attempts none
C28_OneResponse == late = <<>>

(***************************************************************************)
(* Claims about the responses of the router                                *)
(***************************************************************************)
\* the last step answered POST /find with 200
FindAnswered == resp.kind = "find" /\ resp.status = 200

\* the module variables handed to findAllPaths, as they are now
DataNow ==
  [nodes |-> graphData.nodes, adjacency |-> adjacencyList,
   trainInfo |-> trainInfo, directionMap |-> directionMap]

\* C14: in every 200 response of POST /find the ids of the N returned paths
\* are 1..N, the i-th path of the final list having id i, so that no id given
\* by findAllPaths before the merge survives
C14_IdsInOrder ==
  FindAnswered =>
    \A i \in 1..Len(resp.payload.paths) : resp.payload.paths[i].id = i

\* a response with several paths in which the merge removed one
C14_Witness ==
  /\ FindAnswered
  /\ resp.payload.merged_path_count >= 2
  /\ resp.payload.merged_path_count < resp.payload.filtered_path_count

\* C15: the body of a 200 response of POST /find is a function of the request
\* parameters and of the loaded data alone: it is what a service that has
\* served nothing yet answers for them, whatever was served before
C15_SameAnswer ==
  FindAnswered =>
    resp.payload = HandleFind([skipped_same_station_transfers |-> 0],
                              DataNow, resp.body).payload

\* a query that skips an edge, answered after another query that did so
C15_Witness ==
  /\ FindAnswered
  /\ resp.payload.shape = "paths"
  /\ resp.statsBefore.skipped_same_station_transfers > 0
  /\ resp.payload.skipped_same_station_transfers > 0

\* C16: no request with max_transfers outside 0..2 passes the validation and
\* is answered with 200 from the enumerator
C16_MaxTransfersUpToTwo ==
  (FindAnswered /\ resp.body.max_transfers.has) =>
    resp.body.max_transfers.v \in 0..2

\* C17: no 200 response of POST /find for a start or end station that is not
\* a station of the loaded graph
C17_UnknownStation ==
  FindAnswered =>
    {resp.body.start_station, resp.body.end_station} \subseteq StationList

\* C18: every request answered with 200 from the loaded data has read module
\* variables that were all assigned by one load, which had completed
C18_OneLoad ==
  (resp.kind \in {"find", "stations"} /\ resp.status = 200) => resp.oneLoad

\* C20: the raw path count and the skipped_same_station_transfers of a 200
\* response of POST /find, and the paths and statistics the service holds
\* after it, are those of the enumeration of that request
C20_OwnEnumeration ==
  (FindAnswered /\ resp.payload.shape = "paths") =>
    LET final == FinalOptions(resp.body)
        own == FindAllPaths([skipped_same_station_transfers |-> 0],
                            graphData.nodes, adjacencyList,
                            resp.body.start_station, resp.body.end_station,
                            trainInfo, directionMap,
                            [maxTransfers |-> final.maxTransfers,
                             allowSameStationConsecutiveTransfers |->
                                final.allowSameStationTransfers])
    IN /\ resp.payload.raw_path_count = Len(own.returned)
       /\ resp.payload.skipped_same_station_transfers =
            own.stats.skipped_same_station_transfers
       /\ resp.payload.paths =
            ReassignIds(MergePathsByTrainSequence(
              FilterPathsByTimeWindow(own.returned, final.windowMinutes).paths))
       /\ paths = own.paths
       /\ stats = own.stats

\* a query that skips no edge, answered when the service held the statistics
\* of a query that did
C20_Witness ==
  /\ FindAnswered
  /\ resp.payload.shape = "paths"
  /\ resp.statsBefore.skipped_same_station_transfers > 0
  /\ resp.payload.skipped_same_station_transfers = 0

\* C22: a process whose load at startup failed sends no response to any
\* request
C22_AbortsAtStartup ==
  conn["boot"].pc = "failed" => resp.kind = "none"

C30_EmptyAnswered == FindAnswered /\ Len(paths) = 0

\* the paths of a response are ranked and fastest_minutes is the duration of
\* the path with id 1
ResponseRanked ==
  (FindAnswered /\ Len(resp.payload.paths) > 0) =>
     /\ Ranked(resp.payload.paths)
     /\ resp.payload.paths[1].id = 1
     /\ resp.payload.fastest_minutes = resp.payload.paths[1].total_minutes

(***************************************************************************)
(* The time utilities on their own: toTime applied to a number of minutes, *)
(* then parseTime applied to the string it gave.                           *)
(***************************************************************************)
\* no data is loaded and no request is served; the model is at stage
NothingServed(stage) ==
  /\ graphData = [nodes |-> <<>>, edges |-> <<>>]
  /\ scheduleData = <<>>
  /\ adjacencyList = <<>>
  /\ trainInfo = <<>>
  /\ directionMap = <<>>
  /\ paths = <<>>
  /\ stats = [skipped_same_station_transfers |-> 0]
  /\ pc = stage
  /\ req = NoRequest
  /\ startNodes = <<>>
  /\ si = 0
  /\ startTime = 0
  /\ stack = <<>>
  /\ path = <<>>
  /\ edgeHistory = <<>>
  /\ emitted = <<>>
  /\ post = NoPost
  /\ RouterUnused

InitTime ==
  /\ NothingServed("time")
  /\ TimerUnused
  /\ LimiterUnused
  /\ PortUnused
  /\ minutes \in 0..MaxMinutes
  /\ timeStr = NoTime
  /\ parsed = 0

timeFrame ==
  <<dataVars, paths, stats, req, startNodes, si, startTime, stack, path, edgeHistory,
    emitted, post, routerVars, timerVars, limiterVars, portVars, minutes>>

\* timeStr = toTime(minutes)
Format ==
  /\ pc = "time"
  /\ timeStr' = ToTime(minutes)
  /\ pc' = "formatted"
  /\ UNCHANGED <<timeFrame, parsed>>

\* parsed = parseTime(timeStr)
Parse ==
  /\ pc = "formatted"
  /\ parsed' = ParseTime(timeStr)
  /\ pc' = "parsed"
  /\ UNCHANGED <<timeFrame, timeStr>>

NextTime ==
  \/ Format
  \/ Parse

SpecTime == InitTime /\ [][NextTime]_vars

\* C21 as stated: parseTime(toTime(m)) = m mod 1440 for every m
C21_Original ==
  pc = "parsed" => parsed = minutes % MinutesPerDay

\* C21: parseTime(toTime(m)) is m mod 1440 when that is not 0, and 1440 when
\* m is a multiple of 1440 (toTime gives "00:00", which parseTime reads as
\* 1440), so the two agree modulo 1440
C21_RoundTrip ==
  pc = "parsed" =>
    /\ parsed = IF minutes % MinutesPerDay = 0 THEN MinutesPerDay
                ELSE minutes % MinutesPerDay
    /\ parsed % MinutesPerDay = minutes % MinutesPerDay

\* the round trip of 1440
C21_Witness ==
  /\ pc = "parsed"
  /\ minutes = MinutesPerDay
  /\ timeStr = <<0, 0>>
  /\ parsed = MinutesPerDay

(***************************************************************************)
(* buildAdjacencyList on its own, on graph files whose edges are drawn in  *)
(* any order, repetitions included, from a pool with edges the builder     *)
(* keeps and edges it skips.  The node list has no node twice (the triple  *)
(* is the key of a node).                                                  *)
(***************************************************************************)
NodeQ1 == <<"Q", "T1", <<8, 10>>>>

BuildEdgePool ==
  << RawEdge(NodeX1, NodeY1, 30, 0, "travel"),
     RawEdge(NodeY1, NodeW1, 0, 15, ""),
     RawEdge(NodeY1, NodeY2, 10, 0, "transfer"),
     RawEdge(NodeY1, NodeW1, 20, 5, "travel"),
     RawEdge(NodeQ1, NodeY1, 20, 0, "travel"),
     RawEdge(NodeY1, NodeQ1, 20, 0, "travel"),
     RawEdge(NodeY1, NodeW1, 0, 0, "travel"),
     RawEdge(NodeY1, NodeY2, -5, 10, "transfer"),
     RawEdge(NodeY1, NodeY1, 5, 0, "transfer") >>

BuildGraphFiles ==
  { [nodes |-> GraphNodes,
     edges |-> [k \in DOMAIN pick |-> BuildEdgePool[pick[k]]]]
    : pick \in UNION {[1..n -> 1..Len(BuildEdgePool)] : n \in 0..MaxBuildEdges} }

InitBuild ==
  /\ graphData \in BuildGraphFiles
  /\ scheduleData = <<>>
  /\ adjacencyList = <<>>
  /\ trainInfo = <<>>
  /\ directionMap = <<>>
  /\ paths = <<>>
  /\ stats = [skipped_same_station_transfers |-> 0]
  /\ pc = "build"
  /\ req = NoRequest
  /\ startNodes = <<>>
  /\ si = 0
  /\ startTime = 0
  /\ stack = <<>>
  /\ path = <<>>
  /\ edgeHistory = <<>>
  /\ emitted = <<>>
  /\ post = NoPost
  /\ RouterUnused
  /\ TimerUnused
  /\ UtilityUnused
  /\ LimiterUnused
  /\ PortUnused

\* adjacencyList = dataService.buildAdjacencyList(graphData.nodes, graphData.edges)
Build ==
  /\ pc = "build"
  /\ adjacencyList' = BuildAdjacencyList(graphData.nodes, graphData.edges)
  /\ pc' = "built"
  /\ UNCHANGED <<graphData, scheduleData, trainInfo, directionMap, paths, stats, req,
                 startNodes, si, startTime, stack, path, edgeHistory, emitted, post,
                 routerVars, offRouteVars>>

NextBuild == Build

SpecBuild == InitBuild /\ [][NextBuild]_vars

\* the nodes of the graph file
KnownNodes == {graphData.nodes[i] : i \in 1..Len(graphData.nodes)}

\* the duration the claim speaks of: the weight of the edge, its
\* segment_travel_time when it has no weight
DurationOf(e) == IF e.weight # 0 THEN e.weight ELSE e.segment_travel_time

\* the input edges from node i with both ends known and a positive duration
EdgesFrom(i) ==
  SelectSeq(graphData.edges,
            LAMBDA e : /\ e.from = graphData.nodes[i]
                       /\ e.to \in KnownNodes
                       /\ DurationOf(e) > 0)

\* C25: after buildAdjacencyList the adjacency has an entry for every node
\* index, every stored entry has a valid target and a positive duration, and
\* adjacency[i] holds, in input order, one entry for each input edge from
\* node i with both ends known and a positive duration
C25_Adjacency ==
  pc = "built" =>
    /\ DOMAIN adjacencyList = 1..Len(graphData.nodes)
    /\ \A i \in 1..Len(graphData.nodes) :
         /\ \A k \in 1..Len(adjacencyList[i]) :
              /\ adjacencyList[i][k].to \in 1..Len(graphData.nodes)
              /\ adjacencyList[i][k].duration > 0
         /\ Len(adjacencyList[i]) = Len(EdgesFrom(i))
         /\ \A k \in 1..Len(EdgesFrom(i)) :
              /\ graphData.nodes[adjacencyList[i][k].to] = EdgesFrom(i)[k].to
              /\ adjacencyList[i][k].duration = DurationOf(EdgesFrom(i)[k])
              /\ adjacencyList[i][k].type =
                   IF EdgesFrom(i)[k].type = "" THEN "travel" ELSE EdgesFrom(i)[k].type

\* a file with an edge from an unknown node, an edge between known nodes
\* without a positive duration, and an edge that is kept
C25_Witness ==
  /\ pc = "built"
  /\ \E k \in 1..Len(graphData.edges) : graphData.edges[k].from \notin KnownNodes
  /\ \E k \in 1..Len(graphData.edges) :
       /\ graphData.edges[k].from \in KnownNodes
       /\ graphData.edges[k].to \in KnownNodes
       /\ DurationOf(graphData.edges[k]) <= 0
  /\ \E i \in 1..Len(graphData.nodes) : Len(adjacencyList[i]) >= 1

(***************************************************************************)
(* The front-end port (frontend/src/algorithms/dfspath.ts): findAllPaths   *)
(* and mergePathsByTrainSequence as the TypeScript text computes them.     *)
(* IsFast, TotalMinutes, FormatDuration, DirectionInvalid, ComparePaths    *)
(* and KeyPosition are used where the TypeScript text computes what the    *)
(* backend text computes.                                                  *)
(***************************************************************************)
\* toTime of the port: ((totalMinutes % 1440) + 1440) % 1440, then HH:MM
TsToTime(totalMinutes) ==
  LET wrapped == ((totalMinutes % MinutesPerDay) + MinutesPerDay) % MinutesPerDay
  IN <<wrapped \div 60, wrapped % 60>>

RECURSIVE TsTransferDetailsUpTo(_, _, _, _)
\* the loop of the port's summarizePath over the first k edges
TsTransferDetailsUpTo(ns, eh, startAt, k) ==
  IF k = 0 THEN <<>>
  ELSE LET before == TsTransferDetailsUpTo(ns, eh, startAt, k - 1)
           prev == startAt + SumDurations(eh, k - 1)
           timeline == prev + eh[k].duration
       IN IF eh[k].type = "transfer"
          THEN Append(before, [station |-> ns[eh[k].from][1],
                               arrival_time |-> TsToTime(prev),
                               departure_time |-> TsToTime(timeline),
                               wait_minutes |-> eh[k].duration])
          ELSE before

\* summarizePath of the port
TsSummarizePath(ns, eh, trainSequence, startAt, endTime, tinfo) ==
  LET transferDetails == TsTransferDetailsUpTo(ns, eh, startAt, Len(eh))
      walked == startAt + SumDurations(eh, Len(eh))
      timeline == IF walked # endTime THEN endTime ELSE walked
      totalMinutes == TotalMinutes(startAt, timeline)
  IN [type |-> IF Len(transferDetails) # 0 THEN "Transfer" ELSE "Direct",
      train_sequence |-> trainSequence,
      transfer_details |-> transferDetails,
      departure_time |-> TsToTime(startAt),
      arrival_time |-> TsToTime(timeline),
      total_time |-> FormatDuration(totalMinutes),
      total_minutes |-> totalMinutes,
      is_fast |-> IsFast(trainSequence, tinfo),
      transfer_count |-> Len(transferDetails),
      id |-> 0,
      transfer_options |-> NoOptions]

RECURSIVE TsDfs(_, _, _)
RECURSIVE TsDfsNeighbors(_, _, _, _)
\* one call of the port's dfs
TsDfs(ctx, f, acc) ==
  IF ctx.nodes[f.currentIdx][1] = ctx.endStation /\ Len(f.edgeHistory) > 0
  THEN LET summary == TsSummarizePath(ctx.nodes, f.edgeHistory, f.trainSequence,
                                      ctx.startTime, f.currentTime, ctx.trainInfo)
       IN IF summary.transfer_count > 0
             /\ DirectionInvalid(summary.train_sequence, ctx.directionMap)
          THEN acc
          ELSE [acc EXCEPT !.paths = Append(@, summary)]
  ELSE TsDfsNeighbors(ctx, f, 1, acc)

\* the loop of the port's dfs over the neighbors, from the k-th on
TsDfsNeighbors(ctx, f, k, acc) ==
  LET neighbors == ctx.adjacency[f.currentIdx]
  IN IF k > Len(neighbors) THEN acc
     ELSE
       LET edge == neighbors[k]
           neighborTrain == ctx.nodes[edge.to][2]
           currentTrain == ctx.nodes[f.currentIdx][2]
           isTransferNow == edge.type = "transfer" \/ neighborTrain # currentTrain
           transferStation == ctx.nodes[f.currentIdx][1]
           nextTransfers == f.transfersUsed + (IF isTransferNow THEN 1 ELSE 0)
           \* lastTrain is null for an empty sequence; !lastTrain holds for ""
           lastTrain == IF Len(f.trainSequence) > 0
                        THEN f.trainSequence[Len(f.trainSequence)] ELSE ""
           nextTrainSequence ==
             IF lastTrain = "" \/ neighborTrain # lastTrain
             THEN Append(f.trainSequence, neighborTrain) ELSE f.trainSequence
       IN IF (\E i \in 1..Len(f.path) : f.path[i] = edge.to) \/ edge.duration <= 0
          THEN TsDfsNeighbors(ctx, f, k + 1, acc)
          ELSE IF /\ isTransferNow
                  /\ ~ctx.allowSameStationConsecutiveTransfers
                  /\ f.lastTransferStation.has
                  /\ transferStation = f.lastTransferStation.v
          THEN TsDfsNeighbors(ctx, f, k + 1,
                 [acc EXCEPT !.stats.skipped_same_station_transfers = @ + 1])
          ELSE IF nextTransfers > ctx.maxTransfers
          THEN TsDfsNeighbors(ctx, f, k + 1, acc)
          ELSE TsDfsNeighbors(ctx, f, k + 1,
                 TsDfs(ctx,
                       DfsCall(edge.to, f.currentTime + edge.duration, nextTransfers,
                               nextTrainSequence,
                               IF isTransferNow THEN SomeStation(transferStation)
                               ELSE f.lastTransferStation,
                               Append(f.path, edge.to),
                               Append(f.edgeHistory,
                                      [from |-> f.currentIdx, to |-> edge.to,
                                       type |-> edge.type, duration |-> edge.duration])),
                       acc))

RECURSIVE TsDfsFromStarts(_, _, _, _)
\* the port's loop over startNodes, from the k-th on
TsDfsFromStarts(ctx, starts, k, acc) ==
  IF k > Len(starts) THEN acc
  ELSE LET startIdx == starts[k]
           t == ParseTime(ctx.nodes[startIdx][3])
       IN TsDfsFromStarts(ctx, starts, k + 1,
            TsDfs([ctx EXCEPT !.startTime = t],
                  DfsCall(startIdx, t, 0, <<ctx.nodes[startIdx][2]>>, NoStation,
                          <<startIdx>>, <<>>),
                  acc))

\* findAllPaths of the port: { paths, stats }
TsFindAllPaths(nodes, adjacency, startStation, endStation, tinfo, dmap, maxTransfers, allowSameStationConsecutiveTransfers) ==
  LET entry == [paths |-> <<>>, stats |-> [skipped_same_station_transfers |-> 0]]
      starts == StartNodesOf(nodes, startStation)
      ctx == [nodes |-> nodes, adjacency |-> adjacency, endStation |-> endStation,
              trainInfo |-> tinfo, directionMap |-> dmap,
              maxTransfers |-> maxTransfers,
              allowSameStationConsecutiveTransfers |->
                 allowSameStationConsecutiveTransfers,
              startTime |-> 0]
  IN IF Len(starts) = 0 THEN entry
     ELSE LET found == TsDfsFromStarts(ctx, starts, 1, entry)
          IN [paths |-> AddIds(SortPaths(found.paths)), stats |-> found.stats]

\* entry.transfer_count ?? entry.transfer_details.length: a summary has the count
TsTransferCountOf(entry) == entry.transfer_count

\* the JSON text that keys a group in the port
TsMergeKey(entry) ==
  <<entry.train_sequence, entry.type, TsTransferCountOf(entry),
    entry.departure_time, entry.arrival_time, entry.total_minutes>>

\* the option lists of a new group in the port
TsFirstOptionLists(entry) ==
  IF TsTransferCountOf(entry) > 0
  THEN [has |-> TRUE,
        v |-> [i \in 1..TsTransferCountOf(entry) |->
                 IF i <= Len(entry.transfer_details)
                 THEN <<entry.transfer_details[i]>> ELSE <<>>]]
  ELSE [has |-> FALSE, v |-> <<>>]

\* a later entry of a group in the port
TsAddToOptionLists(lists, entry) ==
  LET old == lists.v
      details == entry.transfer_details
  IN [has |-> TRUE,
      v |-> [i \in 1..Max2(Len(old), Len(details)) |->
               LET cur == IF i <= Len(old) THEN old[i] ELSE <<>>
               IN IF i <= Len(details) /\ \A k \in 1..Len(cur) : cur[k] # details[i]
                  THEN Append(cur, details[i]) ELSE cur]]

RECURSIVE TsGroupUpTo(_, _)
\* the first loop of the port's mergePathsByTrainSequence over the first n entries
TsGroupUpTo(ps, n) ==
  IF n = 0 THEN [keys |-> <<>>, bases |-> <<>>, lists |-> <<>>]
  ELSE LET g == TsGroupUpTo(ps, n - 1)
           entry == ps[n]
           at == KeyPosition(g.keys, TsMergeKey(entry))
       IN IF at = 0
          THEN [keys |-> Append(g.keys, TsMergeKey(entry)),
                bases |-> Append(g.bases, entry),
                lists |-> Append(g.lists, TsFirstOptionLists(entry))]
          ELSE IF TsTransferCountOf(entry) = 0 THEN g
          ELSE [g EXCEPT !.lists[at] = TsAddToOptionLists(@, entry)]

\* the second loop of the port: every list becomes a step, empty or not, and
\* transfer_details the first option of every list
TsFinishBase(base, lists) ==
  IF lists.has
  THEN [base EXCEPT
          !.transfer_options =
             [has |-> TRUE,
              v |-> [i \in 1..Len(lists.v) |-> [step |-> i, options |-> lists.v[i]]]],
          !.transfer_details = [i \in 1..Len(lists.v) |-> lists.v[i][1]]]
  ELSE base

\* mergePathsByTrainSequence of the port
TsMergePathsByTrainSequence(ps) ==
  LET g == TsGroupUpTo(ps, Len(ps))
  IN [k \in 1..Len(g.keys) |-> TsFinishBase(g.bases[k], g.lists[k])]

(***************************************************************************)
(* One query given to both.  The graph has a junction that two lines       *)
(* cross and a second junction on a parallel route; the name of the first  *)
(* junction and the id of the first train are each a plain string or the   *)
(* empty string, which a graph file may hold since the loader validates    *)
(* neither.  A graph file holds the nodes and all edges of the pool but    *)
(* at most MaxPortDropped of them.                                         *)
(***************************************************************************)
MaxPortDropped == 2

JunctionNames == {"M", ""}

FirstTrainIds == {"T1", ""}

PortNodes(m, t) ==
  << <<"A", t, <<8, 0>>>>,
     <<m, t, <<8, 10>>>>,
     <<m, "T2", <<8, 20>>>>,
     <<m, "T3", <<8, 30>>>>,
     <<"Z", "T3", <<9, 0>>>>,
     <<"Z", "T2", <<8, 50>>>>,
     <<"Z", t, <<8, 40>>>>,
     <<"N", t, <<8, 20>>>>,
     <<"N", "T2", <<8, 30>>>> >>

PortEdgePool(ns) ==
  << RawEdge(ns[1], ns[2], 10, 0, "travel"),
     RawEdge(ns[2], ns[3], 10, 0, "transfer"),
     RawEdge(ns[3], ns[4], 10, 0, "transfer"),
     RawEdge(ns[4], ns[5], 30, 0, "travel"),
     RawEdge(ns[3], ns[6], 30, 0, "travel"),
     RawEdge(ns[2], ns[7], 30, 0, "travel"),
     RawEdge(ns[2], ns[4], 20, 0, "transfer"),
     RawEdge(ns[1], ns[8], 20, 0, "travel"),
     RawEdge(ns[8], ns[9], 10, 0, "transfer"),
     RawEdge(ns[9], ns[6], 20, 0, "travel") >>

PortGraphFiles ==
  { [nodes |-> PortNodes(m, t),
     edges |-> SelectSeq(PortEdgePool(PortNodes(m, t)),
                         LAMBDA e : \A d \in dropped : e # PortEdgePool(PortNodes(m, t))[d])]
    : m \in JunctionNames, t \in FirstTrainIds,
      dropped \in {s \in SUBSET (1..10) : Cardinality(s) <= MaxPortDropped} }

PortRequests ==
  { [startStation |-> "A", endStation |-> "Z", maxTransfers |-> mt,
     allowSameStationConsecutiveTransfers |-> allow]
    : mt \in 0..MaxTransfersBound, allow \in BOOLEAN }

InitPort ==
  /\ graphData \in PortGraphFiles
  /\ scheduleData \in ScheduleFiles
  /\ adjacencyList = BuildAdjacencyList(graphData.nodes, graphData.edges)
  /\ trainInfo = ExtractTrainInfo(scheduleData)
  /\ directionMap = ExtractDirectionalityMap(scheduleData)
  /\ paths = <<>>
  /\ stats = [skipped_same_station_transfers |-> 0]
  /\ pc = "query"
  /\ req \in PortRequests
  /\ startNodes = <<>>
  /\ si = 0
  /\ startTime = 0
  /\ stack = <<>>
  /\ path = <<>>
  /\ edgeHistory = <<>>
  /\ emitted = <<>>
  /\ post = NoPost
  /\ RouterUnused
  /\ TimerUnused
  /\ UtilityUnused
  /\ LimiterUnused
  /\ PortUnused

portFrame ==
  <<dataVars, req, startNodes, si, startTime, stack, path, edgeHistory, emitted, post,
    routerVars, timerVars, utilityVars, limiterVars>>

\* the backend: pathfindingService.findAllPaths, then mergePathsByTrainSequence
BackendAnswers ==
  /\ pc = "query"
  /\ LET found == FindAllPaths(stats, graphData.nodes, adjacencyList, req.startStation,
                               req.endStation, trainInfo, directionMap,
                               [maxTransfers |-> req.maxTransfers,
                                allowSameStationConsecutiveTransfers |->
                                   req.allowSameStationConsecutiveTransfers])
     IN /\ paths' = found.paths
        /\ stats' = found.stats
        /\ port' = [port EXCEPT !.backend =
                      [paths |-> MergePathsByTrainSequence(found.returned),
                       skipped_same_station_transfers |->
                          found.stats.skipped_same_station_transfers]]
  /\ pc' = "backend"
  /\ UNCHANGED portFrame

\* the port: findAllPaths, then mergePathsByTrainSequence
FrontendAnswers ==
  /\ pc = "backend"
  /\ LET found == TsFindAllPaths(graphData.nodes, adjacencyList, req.startStation,
                                 req.endStation, trainInfo, directionMap,
                                 req.maxTransfers,
                                 req.allowSameStationConsecutiveTransfers)
     IN port' = [port EXCEPT !.frontend =
                   [paths |-> TsMergePathsByTrainSequence(found.paths),
                    skipped_same_station_transfers |->
                       found.stats.skipped_same_station_transfers]]
  /\ pc' = "both"
  /\ UNCHANGED <<paths, stats, portFrame>>

NextPort == BackendAnswers \/ FrontendAnswers

SpecPort == InitPort /\ [][NextPort]_vars

\* every station name and train id of the graph is a non-empty string
NamesNotEmpty ==
  \A i \in 1..Len(graphData.nodes) :
     graphData.nodes[i][1] # "" /\ graphData.nodes[i][2] # ""

\* C26: once both have answered the same query on the same graph, schedule
\* and options, the port's merged paths are the backend's merged paths, in
\* the same order and equal in every field, and the two counts of skipped
\* same-station transfers are equal
C26_PortEquivalent == pc = "both" => port.frontend = port.backend

\* the two answers agree, with paths found, on a graph without empty names
PortAgreesOnNamed ==
  (pc = "both" /\ NamesNotEmpty) => port.frontend = port.backend

(***************************************************************************)
(* The rate limiter (middleware/validation.js, createRateLimiter) on its   *)
(* own.  Date.now() does not go back; several requests may arrive in one   *)
(* millisecond.  The limits are scaled down: RateMaxRequests requests per  *)
(* RateWindowMs milliseconds, old entries cleaned when the Map holds more  *)
(* than RateCleanupSize clients.  requests is the Map; admitted, per       *)
(* client, the arrival times of the requests for which next() was called.  *)
(***************************************************************************)
RateMaxRequests == 2

RateWindowMs == 3

RateCleanupSize == 1

MaxNow == 5

\* req.ip || req.headers['x-forwarded-for'] || 'unknown'
RateClients == {"10.0.0.1", "unknown"}

\* the timestamps of a client in a Map, [] when the Map has no such key
TimestampsOf(map, clientId) ==
  IF clientId \in DOMAIN map THEN map[clientId] ELSE <<>>

\* requests.set(key, value)
MapSet(map, key, value) ==
  [k \in DOMAIN map \cup {key} |-> IF k = key THEN value ELSE map[k]]

\* the loop "Clean old entries": every key keeps its timestamps above the
\* cutoff, and is deleted when none is left
CleanOldEntries(map, at) ==
  LET cutoff == at - RateWindowMs
      kept(k) == SelectSeq(map[k], LAMBDA timestamp : timestamp > cutoff)
  IN [k \in {j \in DOMAIN map : Len(kept(j)) > 0} |-> kept(k)]

\* clientRequests.filter(timestamp => now - timestamp < windowMs)
RecentRequests(clientRequests, at) ==
  SelectSeq(clientRequests, LAMBDA timestamp : at - timestamp < RateWindowMs)

\* mutant: one request more is let through
LimitReached_Over(recentRequests) == Len(recentRequests) > RateMaxRequests

\* recentRequests.length >= maxRequests
LimitReached(recentRequests) == Len(recentRequests) >= RateMaxRequests

InitRate ==
  /\ NothingServed("rate")
  /\ TimerUnused
  /\ UtilityUnused
  /\ LimiterUnused
  /\ PortUnused

rateFrame ==
  <<dataVars, paths, stats, dfsVars, post, routerVars, timerVars, utilityVars, portVars>>

\* a millisecond passes
Tick ==
  /\ pc = "rate"
  /\ now < MaxNow
  /\ now' = now + 1
  /\ verdict' = NoVerdict
  /\ UNCHANGED <<requests, admitted, rateFrame>>

\* the middleware runs for a request of client clientId
Limit(clientId) ==
  /\ pc = "rate"
  /\ LET cleaned == IF Cardinality(DOMAIN requests) > RateCleanupSize
                    THEN CleanOldEntries(requests, now) ELSE requests
         recentRequests == RecentRequests(TimestampsOf(cleaned, clientId), now)
         before == Len(RecentRequests(TimestampsOf(admitted, clientId), now))
     IN IF LimitReached(recentRequests)
        THEN /\ requests' = cleaned
             /\ verdict' = [client |-> clientId, status |-> 429, before |-> before]
             /\ UNCHANGED admitted
        ELSE /\ requests' = MapSet(cleaned, clientId, Append(recentRequests, now))
             /\ admitted' = MapSet(admitted, clientId,
                                   Append(TimestampsOf(admitted, clientId), now))
             /\ verdict' = [client |-> clientId, status |-> 200, before |-> before]
  /\ UNCHANGED <<now, rateFrame>>

NextRate == Tick \/ \E clientId \in RateClients : Limit(clientId)

SpecRate == InitRate /\ [][NextRate]_vars

\* the admitted requests of a client that arrived in the window of length
\* RateWindowMs that starts at t
AdmittedIn(clientId, t) ==
  {i \in 1..Len(TimestampsOf(admitted, clientId)) :
     /\ t <= admitted[clientId][i]
     /\ admitted[clientId][i] < t + RateWindowMs}

\* the timestamps of a list that are less than RateWindowMs old at time at
Fresh(timestamps, at) ==
  SelectSeq(timestamps, LAMBDA timestamp : timestamp > at - RateWindowMs)

C29_State ==
  /\ \A clientId \in RateClients : \A t \in 0..MaxNow :
        Cardinality(AdmittedIn(clientId, t)) <= RateMaxRequests
  /\ verdict.client # "" =>
        /\ verdict.status = 429 <=> verdict.before = RateMaxRequests
        /\ verdict.status = 200 <=> verdict.before < RateMaxRequests
  /\ \A clientId \in RateClients :
        Fresh(TimestampsOf(requests, clientId), now)
          = Fresh(TimestampsOf(admitted, clientId), now)

C29_Step ==
  /\ verdict'.status = 429 =>
        /\ admitted' = admitted
        /\ \A clientId \in RateClients :
              Fresh(TimestampsOf(requests', clientId), now)
                = Fresh(TimestampsOf(requests, clientId), now)
  /\ \A clientId \in RateClients :
        (now' = now /\ verdict'.client # clientId) =>
           Fresh(TimestampsOf(requests', clientId), now)
             = Fresh(TimestampsOf(requests, clientId), now)

(***************************************************************************)
(* C29: the rate limiter admits, for each client id, at most               *)
(* RateMaxRequests requests in any interval of RateWindowMs milliseconds;  *)
(* a request is answered 429 exactly when the client has RateMaxRequests   *)
(* admitted requests less than RateWindowMs old; a rejected request is not *)
(* recorded and changes no count; a request of one client leaves the       *)
(* count of every other client as it was.                                  *)
(***************************************************************************)
C29_RateLimited == []C29_State /\ [][C29_Step]_vars

\* a client is rejected with its quota used up, after an older request of
\* its own has left the window, while the other client has requests recorded
\* and the clean-up has run
C29_Witness ==
  /\ verdict.status = 429
  /\ verdict.before = RateMaxRequests
  /\ Len(TimestampsOf(admitted, verdict.client)) > RateMaxRequests
  /\ \E other \in RateClients \ {verdict.client} :
        /\ Len(TimestampsOf(admitted, other)) > 0
        /\ Len(TimestampsOf(requests, other)) < Len(admitted[other])

=============================================================================
